---- MODULE Spec2Model ----
(***************************************************************************)
(* Topic scoring and adaptive learning loop of the video automation        *)
(* pipeline: research/score.py (TopicScorer), analytics/learn.py           *)
(* (LearningEngine), analytics/fetch.py (derived metrics).                 *)
(*                                                                         *)
(* Numbers.  The code computes in floats; the model computes the same      *)
(* expressions in exact rationals.  A weight map is a record               *)
(*   [num |-> [recency_weight |-> n1, ...], den |-> d]                     *)
(* standing for the five values n_k / d, kept in lowest terms (Canon) so   *)
(* that equal weight maps are equal records.  A performance score is an    *)
(* integer count of 1/10000.  A topic score is a fraction [num, den].      *)
(***************************************************************************)
EXTENDS Integers, Sequences, FiniteSets, TLC

VARIABLES
    weights,        \* pipeline.topic_scorer.weights           (pipeline.py:33)
    used_topics,    \* pipeline.topic_scorer.used_topics       (score.py:46-56)
    peer_used_topics, \* used_topics of a TopicScorer in a second process
    learn_weights,  \* scheduler.learning_engine.topic_scorer.weights (learn.py:14)
    learning_data,  \* scheduler.learning_engine.learning_data (learn.py:18-34)
    weights_file,   \* document topic_weights.json
    history_file,   \* document used_topics.json
    learning_file,  \* document learning_data.json
    ideas,          \* the list handed to score_and_rank, scores mutated in place
    ranked,         \* the list score_and_rank returned last
    prev_ranked,    \* the list returned by the call before that
    now,            \* the clock, in whole days
    op,             \* the operation that returned last
    result,         \* how it ended: "ok", "no_metrics", "error", "raised";
                    \* for check_content: "approved", "blocked", "raised"
    weights_used,   \* the weight map the last score_and_rank call read
    learned,        \* a learning update changed the weights since process start
    mark_log,       \* per channel, every record mark_topic_used ever appended
    hook_log,       \* every hook performance _analyze_hook_performance inserted
    request,        \* the arguments of the last read-only call
    recommended,    \* what the last recommendation or sub-score call returned
    sched,          \* the scheduler: its clock, counts, jobs and the job table
    n_ops           \* operations performed so far (bounds the model)

vars == <<weights, used_topics, peer_used_topics, learn_weights, learning_data,
          weights_file, history_file, learning_file, ideas, ranked, prev_ranked, now, op,
          result, weights_used, learned, mark_log, hook_log, request,
          recommended, sched, n_ops>>

(***************************************************************************)
(* Bounds of the model.                                                    *)
(***************************************************************************)
MaxWeightOps == 2      \* weight-changing operations in SpecWeights
MaxLoopOps == 2        \* operations in SpecLoop
MaxScoreOps == 3       \* operations in SpecScore
MaxBatch == 3          \* candidates in one batch
MaxMarks == 102        \* mark_topic_used calls in SpecHistory
MaxHookInserts == 52   \* learning updates in SpecHooks

(***************************************************************************)
(* Program constants.                                                      *)
(***************************************************************************)
HistoryCap == 100      \* score.py:266  [-100:]
HooksCap == 50         \* learn.py:140  [:50]
StructuresCap == 20    \* learn.py:177  [:20]
TrendCap == 10         \* learn.py:108  [-10:]
PerfWindow == 50       \* score.py:181  [-50]
NoveltyDays == 14      \* score.py:150

Channels == {"c1", "c2"}

(***************************************************************************)
(* Rational helpers.                                                       *)
(***************************************************************************)
Abs(x) == IF x < 0 THEN -x ELSE x

Min(a, b) == IF a <= b THEN a ELSE b

Max(a, b) == IF a >= b THEN a ELSE b

RECURSIVE GCD(_, _)
GCD(a, b) == IF b = 0 THEN Abs(a) ELSE GCD(b, Abs(a) % Abs(b))

WeightKeys ==
    {"recency_weight", "cross_source_weight", "novelty_weight",
     "performance_weight", "keyword_frequency_weight"}

SumNum(n) ==
    n.recency_weight + n.cross_source_weight + n.novelty_weight
        + n.performance_weight + n.keyword_frequency_weight

\* sum(weights.values()), as a numerator over w.den
SumWeights(w) == SumNum(w.num)

\* the same weight values, in lowest terms
Canon(w) ==
    LET n == w.num
        g == GCD(w.den, GCD(n.recency_weight, GCD(n.cross_source_weight,
                 GCD(n.novelty_weight, GCD(n.performance_weight,
                     n.keyword_frequency_weight)))))
    IN  IF g = 0 THEN w
        ELSE [num |-> [k \in WeightKeys |-> n[k] \div g], den |-> w.den \div g]

\* every weight w[k] multiplied by p[k] / q
Scale(w, p, q) ==
    Canon([num |-> [k \in WeightKeys |-> w.num[k] * p[k]], den |-> w.den * q])

(***************************************************************************)
(* Writing a JSON document: makedirs, open(path, 'w'), json.dump, all in   *)
(* one try whose except logs.  The write is "written"; or it fails before  *)
(* the file is opened ("not_opened": the document is as it was); or it     *)
(* fails after open(path, 'w') truncated the file ("torn": what is left    *)
(* does not parse).  content is the record of the fields written.          *)
(***************************************************************************)
IoOutcomes == {"written", "not_opened", "torn"}

write_document(doc, content, io) ==
    IF io = "written"
    THEN [k \in DOMAIN doc |->
             IF k = "exists" THEN TRUE
             ELSE IF k = "corrupt" THEN FALSE
             ELSE content[k]]
    ELSE IF io = "torn" THEN [doc EXCEPT !.exists = TRUE, !.corrupt = TRUE]
    ELSE doc

(***************************************************************************)
(* TopicScorer: weights document.                                          *)
(***************************************************************************)
default_weights ==
    Canon([num |-> [recency_weight |-> 30, cross_source_weight |-> 20,
                    novelty_weight |-> 25, performance_weight |-> 25,
                    keyword_frequency_weight |-> 10],
           den |-> 100])

NoWeightsFile == [exists |-> FALSE, corrupt |-> FALSE, w |-> default_weights]

\* load_weights: the document's values over the defaults, defaults if absent
load_weights(doc) == IF doc.exists /\ ~doc.corrupt THEN doc.w ELSE default_weights

\* save_weights: the whole map is written
save_weights(doc, w, io) == write_document(doc, [w |-> w], io)

(***************************************************************************)
(* AnalyticsFetcher.calculate_performance_metrics.                         *)
(* A row of the analytics table: found, views, likes, avg_view_duration.   *)
(* engagement_rate is kept in hundredths (x100), retention_rate in whole   *)
(* percent; the rows drawn below make both exact.                          *)
(***************************************************************************)
Row(f, v, l, d) == [found |-> f, views |-> v, likes |-> l, avg_view_duration_sec |-> d]

NoRow == Row(FALSE, 0, 0, 0)
RowViral == Row(TRUE, 12000, 360, 24)    \* engagement 3.0, retention 80
RowHigh == Row(TRUE, 6000, 60, 15)       \* engagement 1.0, retention 50
RowGood == Row(TRUE, 2000, 20, 15)       \* engagement 1.0, retention 50
RowLowBoth == Row(TRUE, 40, 0, 6)        \* engagement 0, retention 20
RowLowRetention == Row(TRUE, 40, 2, 6)   \* engagement 5.0, retention 20
RowLowEngagement == Row(TRUE, 40, 0, 24) \* engagement 0, retention 80
RowLowNeither == Row(TRUE, 40, 2, 24)    \* engagement 5.0, retention 80
RowLowAtThreshold == Row(TRUE, 40, 0, 9) \* engagement 0, retention 30
RowNoViews == Row(TRUE, 0, 0, 0)         \* engagement 0, retention 0
RowAverage == Row(TRUE, 500, 0, 6)       \* engagement 0, retention 20

performance_category(views) ==
    IF views >= 10000 THEN "viral"
    ELSE IF views >= 5000 THEN "high"
    ELSE IF views >= 1000 THEN "good"
    ELSE IF views >= 100 THEN "average"
    ELSE "low"

calculate_performance_metrics(row) ==
    IF ~row.found
    THEN [empty |-> TRUE, views |-> 0, engagement_rate |-> 0,
          performance_category |-> "average", retention_rate |-> 0]
    ELSE [empty |-> FALSE,
          views |-> row.views,
          engagement_rate |->
              IF row.views > 0 THEN (row.likes * 100 * 100) \div row.views ELSE 0,
          performance_category |-> performance_category(row.views),
          retention_rate |->
              IF row.avg_view_duration_sec > 0
              THEN Min(100, (row.avg_view_duration_sec * 100) \div 30)
              ELSE 0]

(***************************************************************************)
(* LearningEngine._calculate_performance_score, in 1/10000.                *)
(***************************************************************************)
calculate_performance_score(metrics) ==
    LET view_score == Min(10000, metrics.views)              \* min(1, views/10000)
        engagement_score == Min(500, metrics.engagement_rate) \* min(1, rate/5.0)
        retention_score == metrics.retention_rate             \* rate/100
    IN  (view_score * 5) \div 10 + engagement_score * 6 + retention_score * 20

(***************************************************************************)
(* LearningEngine._update_topic_weights: the weight map it computes.       *)
(***************************************************************************)
AllKeys(p) == [k \in WeightKeys |-> p]

normalize_weights(w) == Canon([num |-> w.num, den |-> SumWeights(w)])

\* mutant: the retention branch subtracts the factor instead of multiplying
update_topic_weights_subtract(w, metrics) ==
    LET low == metrics.performance_category = "low"
        w1 == IF low /\ metrics.retention_rate < 30
              THEN Canon([num |-> [k \in WeightKeys |->
                             IF k = "performance_weight"
                             THEN w.num[k] * 100 - 95 * w.den
                             ELSE IF k = "novelty_weight" THEN w.num[k] * 105
                             ELSE w.num[k] * 100],
                          den |-> w.den * 100])
              ELSE w
    IN  normalize_weights(w1)

\* mutant: a successful video boosts the performance weight only
update_topic_weights_boost_one(w, metrics) ==
    LET category == metrics.performance_category
        boosted == Scale(w, [AllKeys(100) EXCEPT !["performance_weight"] = 102], 100)
        w1 == IF metrics.retention_rate < 30
              THEN Scale(w, [AllKeys(100) EXCEPT !["novelty_weight"] = 105,
                                                 !["performance_weight"] = 95], 100)
              ELSE w
        w2 == IF metrics.engagement_rate < 100
              THEN Scale(w1, [AllKeys(100) EXCEPT !["cross_source_weight"] = 103,
                                                  !["recency_weight"] = 98], 100)
              ELSE w1
        adjusted == IF category \in {"viral", "high"} THEN boosted
                    ELSE IF category = "low" THEN w2
                    ELSE w
    IN  normalize_weights(adjusted)

\* mutant: the engagement branch is an elif of the retention branch
update_topic_weights_elif(w, metrics) ==
    LET category == metrics.performance_category
        boosted == Scale(w, AllKeys(102), 100)
        w2 == IF metrics.retention_rate < 30
              THEN Scale(w, [AllKeys(100) EXCEPT !["novelty_weight"] = 105,
                                                 !["performance_weight"] = 95], 100)
              ELSE IF metrics.engagement_rate < 100
              THEN Scale(w, [AllKeys(100) EXCEPT !["cross_source_weight"] = 103,
                                                 !["recency_weight"] = 98], 100)
              ELSE w
        adjusted == IF category \in {"viral", "high"} THEN boosted
                    ELSE IF category = "low" THEN w2
                    ELSE w
    IN  normalize_weights(adjusted)

update_topic_weights(w, metrics) ==
    LET category == metrics.performance_category
        boosted == Scale(w, AllKeys(102), 100)
        w1 == IF metrics.retention_rate < 30
              THEN Scale(w, [AllKeys(100) EXCEPT !["novelty_weight"] = 105,
                                                 !["performance_weight"] = 95], 100)
              ELSE w
        w2 == IF metrics.engagement_rate < 100
              THEN Scale(w1, [AllKeys(100) EXCEPT !["cross_source_weight"] = 103,
                                                  !["recency_weight"] = 98], 100)
              ELSE w1
        adjusted == IF category \in {"viral", "high"} THEN boosted
                    ELSE IF category = "low" THEN w2
                    ELSE w
    IN  normalize_weights(adjusted)

(***************************************************************************)
(* sorted(xs, key, reverse=True): a stable sort, highest key first.        *)
(* keys[i] is the key of xs[i].                                            *)
(***************************************************************************)
SortedDesc(s, keys) ==
    LET n == Len(s)
        \* where s[i] lands: behind every higher key and behind the equal
        \* keys that stood before it
        place == SubSeq([i \in 1..n |->
                     1 + Cardinality({j \in 1..n :
                             \/ keys[j] > keys[i]
                             \/ keys[j] = keys[i] /\ j < i})], 1, n)
        order == [q \in 1..n |-> CHOOSE i \in 1..n : place[i] = q]
    IN  [q \in 1..n |-> s[order[q]]]

\* xs[:n]
Prefix(s, n) == SubSeq(s, 1, Min(n, Len(s)))

\* xs[-n:]
Suffix(s, n) == SubSeq(s, Max(1, Len(s) - n + 1), Len(s))

RECURSIVE SumLen(_, _)
SumLen(ss, i) == IF i > Len(ss) THEN 0 ELSE Len(ss[i]) + SumLen(ss, i + 1)

\* a fraction in lowest terms
Frac(n, d) == LET g == GCD(n, d) IN IF g = 0 THEN [num |-> n, den |-> d]
                                    ELSE [num |-> n \div g, den |-> d \div g]

(***************************************************************************)
(* Texts.  A hook is the list of its whitespace-separated words; a script  *)
(* is the list of its '.'-separated pieces, each a list of words.  The     *)
(* sets below say which words of the vocabulary hold a '?', a digit or a   *)
(* call-to-action term, and give str.lower() on the capitalised ones.      *)
(***************************************************************************)
QuestionWords == {"why?"}

DigitWords == {"5"}

CallToActionWords == {"subscribe", "Like"}

ActionVerbs == {"discover", "learn", "watch", "see", "find", "get"}

lower(word) ==
    CASE word = "Watch" -> "watch"
      [] word = "Learn" -> "learn"
      [] word = "AI" -> "ai"
      [] word = "Like" -> "like"
      [] word = "Robots" -> "robots"
      [] OTHER -> word

HookEmpty == <<>>
HookWatch == <<"Watch", "robots", "learn">>
HookWhy == <<"why?", "5", "Robots">>

ScriptShort == << <<"Robots", "learn">>, <<>> >>                \* "Robots learn."
ScriptCta == << <<"Watch", "robots">>, <<"Like", "and", "subscribe">>, <<>> >>

(***************************************************************************)
(* LearningEngine: learning-state document.                                *)
(***************************************************************************)
EmptyMap == [k \in {} |-> 0]

fresh_learning_data ==
    [has_keys |-> TRUE, keyword_performance |-> EmptyMap,
     successful_hooks |-> <<>>, content_insights |-> EmptyMap,
     last_updated |-> -1]

\* what load_learning_data leaves when the document cannot be parsed: {}
empty_learning_data == [fresh_learning_data EXCEPT !.has_keys = FALSE]

NoLearningFile == [exists |-> FALSE, corrupt |-> FALSE, data |-> fresh_learning_data]

load_learning_data(doc) ==
    IF ~doc.exists THEN fresh_learning_data
    ELSE IF doc.corrupt THEN empty_learning_data
    ELSE doc.data

\* save_learning_data: stamps last_updated, then writes; returns the data
\* in memory and the document
save_learning_data(ld, doc, io) ==
    LET stamped == [ld EXCEPT !.last_updated = now]
    IN  [data |-> stamped,
         doc |-> write_document(doc, [data |-> stamped], io)]

new_keyword_stats ==
    [total_videos |-> 0, total_performance |-> 0, avg_performance |-> Frac(0, 1),
     best_performance |-> 0, recent_trend |-> <<>>]

\* one pass of the loop body of _update_keyword_performance
update_one_keyword(kp, keyword, performance_score) ==
    LET old == IF keyword \in DOMAIN kp THEN kp[keyword] ELSE new_keyword_stats
        videos == old.total_videos + 1
        total == old.total_performance + performance_score
        stats == [total_videos |-> videos,
                  total_performance |-> total,
                  avg_performance |-> Frac(total, videos),
                  best_performance |-> Max(old.best_performance, performance_score),
                  recent_trend |->
                      Suffix(Append(old.recent_trend, performance_score), TrendCap)]
    IN  [k \in DOMAIN kp \cup {keyword} |-> IF k = keyword THEN stats ELSE kp[k]]

RECURSIVE update_keywords_from(_, _, _, _)
update_keywords_from(kp, keywords, i, performance_score) ==
    IF i > Len(keywords) THEN kp
    ELSE update_keywords_from(update_one_keyword(kp, keywords[i], performance_score),
                              keywords, i + 1, performance_score)

\* _update_keyword_performance: [ld, raised]
update_keyword_performance(ld, keywords, metrics) ==
    IF Len(keywords) = 0 THEN [ld |-> ld, raised |-> FALSE]
    ELSE IF ~ld.has_keys THEN [ld |-> ld, raised |-> TRUE]      \* KeyError
    ELSE [ld |-> [ld EXCEPT !.keyword_performance =
                     update_keywords_from(ld.keyword_performance, keywords, 1,
                                          calculate_performance_score(metrics))],
          raised |-> FALSE]

PerformanceKeys(s) == [i \in 1..Len(s) |-> s[i].performance]

NegatedPerformanceKeys(s) == [i \in 1..Len(s) |-> -s[i].performance]

hook_data(hook, metrics) ==
    [text |-> hook,
     performance |-> calculate_performance_score(metrics),
     length_words |-> Len(hook),
     has_question |-> \E i \in 1..Len(hook) : hook[i] \in QuestionWords,
     has_numbers |-> \E i \in 1..Len(hook) : hook[i] \in DigitWords,
     starts_with_action |-> lower(hook[1]) \in ActionVerbs,
     views |-> metrics.views,
     engagement_rate |-> metrics.engagement_rate,
     timestamp |-> now]

\* mutant: the sort loses reverse=True, so the slice keeps the lowest
keep_top_hooks_ascending(hooks) == Prefix(SortedDesc(hooks, NegatedPerformanceKeys(hooks)), HooksCap)

\* sorted(successful_hooks, key=performance, reverse=True)[:50]
keep_top_hooks(hooks) == Prefix(SortedDesc(hooks, PerformanceKeys(hooks)), HooksCap)

\* _analyze_hook_performance: [ld, raised]
analyze_hook_performance(ld, hook, metrics) ==
    IF Len(hook) = 0 THEN [ld |-> ld, raised |-> TRUE]          \* IndexError
    ELSE IF ~ld.has_keys THEN [ld |-> ld, raised |-> TRUE]      \* KeyError
    ELSE [ld |-> [ld EXCEPT !.successful_hooks =
                     keep_top_hooks(Append(ld.successful_hooks,
                                           hook_data(hook, metrics)))],
          raised |-> FALSE]

new_channel_insights ==
    [optimal_length |-> [word_count |-> 0, performance |-> 0],
     successful_structures |-> <<>>]

structure_pattern(script, metrics) ==
    [sentence_count |-> Len(script),
     avg_sentence_length |-> Frac(SumLen(script, 1), Len(script)),
     has_call_to_action |->
         \E i \in 1..Len(script) : \E j \in 1..Len(script[i]) :
             script[i][j] \in CallToActionWords,
     performance |-> calculate_performance_score(metrics)]

\* mutant: optimal_length is replaced by a score that is no worse
update_content_insights_replace_on_tie(ld, script, metrics, channel) ==
    IF ~ld.has_keys THEN [ld |-> ld, raised |-> TRUE]
    ELSE
    LET ci == ld.content_insights
        insights == IF channel \in DOMAIN ci THEN ci[channel] ELSE new_channel_insights
        performance_score == calculate_performance_score(metrics)
        optimal == IF performance_score >= insights.optimal_length.performance
                   THEN [word_count |-> SumLen(script, 1),
                         performance |-> performance_score]
                   ELSE insights.optimal_length
        appended == Append(insights.successful_structures,
                           structure_pattern(script, metrics))
        structures == Prefix(SortedDesc(appended, PerformanceKeys(appended)),
                             StructuresCap)
        updated == [optimal_length |-> optimal, successful_structures |-> structures]
    IN  [ld |-> [ld EXCEPT !.content_insights =
                    [c \in DOMAIN ci \cup {channel} |->
                        IF c = channel THEN updated ELSE ci[c]]],
         raised |-> FALSE]

\* _update_content_insights: [ld, raised]
update_content_insights(ld, script, metrics, channel) ==
    IF ~ld.has_keys THEN [ld |-> ld, raised |-> TRUE]           \* KeyError
    ELSE
    LET ci == ld.content_insights
        insights == IF channel \in DOMAIN ci THEN ci[channel] ELSE new_channel_insights
        performance_score == calculate_performance_score(metrics)
        optimal == IF performance_score > insights.optimal_length.performance
                   THEN [word_count |-> SumLen(script, 1),
                         performance |-> performance_score]
                   ELSE insights.optimal_length
        appended == Append(insights.successful_structures,
                           structure_pattern(script, metrics))
        structures == Prefix(SortedDesc(appended, PerformanceKeys(appended)),
                             StructuresCap)
        updated == [optimal_length |-> optimal, successful_structures |-> structures]
    IN  [ld |-> [ld EXCEPT !.content_insights =
                    [c \in DOMAIN ci \cup {channel} |->
                        IF c = channel THEN updated ELSE ci[c]]],
         raised |-> FALSE]

(***************************************************************************)
(* TopicScorer: usage-history document.                                    *)
(***************************************************************************)
NoHistory == [c \in {} |-> <<>>]

NoHistoryFile == [exists |-> FALSE, corrupt |-> FALSE, data |-> NoHistory]

load_history(doc) == IF doc.exists /\ ~doc.corrupt THEN doc.data ELSE NoHistory

save_history(doc, h, io) == write_document(doc, [data |-> h], io)

\* used_topics.get(channel, [])
channel_history(h, channel) == IF channel \in DOMAIN h THEN h[channel] ELSE <<>>

(***************************************************************************)
(* TopicScorer: the five sub-scores.  A sub-score is an integer count of   *)
(* 1/600 (tenths, times the 60 that every keyword count 1..5 divides), so  *)
(* 600 stands for 1.0.  An idea is [id, keywords, age_hours, score].       *)
(***************************************************************************)
ToSet(seq) == {seq[i] : i \in 1..Len(seq)}

Overlap(a, b) == Cardinality(ToSet(a) \cap ToSet(b))

Tenths(t) == t * 60

score_recency(idea) ==
    IF idea.age_hours <= 24 THEN Tenths(10)
    ELSE IF idea.age_hours <= 72 THEN Tenths(8)
    ELSE IF idea.age_hours <= 120 THEN Tenths(5)
    ELSE Tenths(2)

score_cross_source_overlap(idea, all_ideas) ==
    LET similar_count ==
            Cardinality({i \in 1..Len(all_ideas) :
                /\ all_ideas[i].id # idea.id
                /\ Overlap(idea.keywords, all_ideas[i].keywords) >= 2})
    IN  IF similar_count >= 3 THEN Tenths(10)
        ELSE IF similar_count >= 2 THEN Tenths(8)
        ELSE IF similar_count >= 1 THEN Tenths(6)
        ELSE Tenths(3)

\* the loop of _score_novelty over recent_topics: the first entry sharing
\* two or more keywords decides
RECURSIVE novelty_from(_, _, _)
novelty_from(idea, recent_topics, i) ==
    IF i > Len(recent_topics) THEN Tenths(10)
    ELSE IF Overlap(idea.keywords, recent_topics[i].keywords) >= 3 THEN Tenths(2)
    ELSE IF Overlap(idea.keywords, recent_topics[i].keywords) >= 2 THEN Tenths(5)
    ELSE novelty_from(idea, recent_topics, i + 1)

score_novelty(idea, channel) ==
    LET history == channel_history(used_topics, channel)
        recent_topics == SelectSeq(history, LAMBDA t : t.used_at > now - NoveltyDays)
    IN  novelty_from(idea, recent_topics, 1)

\* _score_performance_potential: [raised, value].  score.py:181 reads
\* channel_history[-50], one element and not a slice: an IndexError when the
\* history is shorter than 50, otherwise one record, and the loop then runs
\* over the keys of that record.  The key 'performance' contains
\* 'performance', so the key (a string) is indexed with 'keywords': a
\* TypeError.  Every record mark_topic_used writes has that key.
score_performance_potential(idea, channel) ==
    LET history == channel_history(used_topics, channel)
    IN  IF Len(history) = 0 THEN [raised |-> FALSE, value |-> Tenths(5)]
        ELSE IF Len(history) < PerfWindow THEN [raised |-> TRUE, value |-> 0]
        ELSE [raised |-> TRUE, value |-> 0]

RECURSIVE all_keywords_from(_, _)
all_keywords_from(all_ideas, i) ==
    IF i > Len(all_ideas) THEN <<>>
    ELSE all_ideas[i].keywords \o all_keywords_from(all_ideas, i + 1)

CountOf(seq, x) == Cardinality({i \in 1..Len(seq) : seq[i] = x})

\* the score of one keyword, in tenths, from its share count / total
frequency_score(count, total) ==
    IF 2 * total <= 100 * count /\ 100 * count <= 8 * total THEN 10
    ELSE IF total <= 100 * count /\ 100 * count <= 15 * total THEN 7
    ELSE 4

RECURSIVE sum_frequency_scores(_, _, _)
sum_frequency_scores(keywords, all_keywords, i) ==
    IF i > Len(keywords) THEN 0
    ELSE frequency_score(CountOf(all_keywords, keywords[i]), Len(all_keywords))
             + sum_frequency_scores(keywords, all_keywords, i + 1)

score_keyword_frequency(idea, all_ideas) ==
    LET all_keywords == all_keywords_from(all_ideas, 1)
    IN  IF Len(all_keywords) = 0 THEN Tenths(5)
        ELSE IF Len(idea.keywords) = 0 THEN Tenths(5)
        ELSE (sum_frequency_scores(idea.keywords, all_keywords, 1) * 60)
                 \div Len(idea.keywords)

\* mutant: the sub-scores are added up without their weights and unclamped
calculate_composite_score_unweighted(idea, all_ideas, channel, w) ==
    [num |-> (score_recency(idea) + score_cross_source_overlap(idea, all_ideas)
                + score_novelty(idea, channel)
                + score_performance_potential(idea, channel).value
                + score_keyword_frequency(idea, all_ideas)) * w.den,
     den |-> 600 * w.den]

\* _calculate_composite_score with the weight map w: min(1.0, weighted sum),
\* as a numerator over 600 * w.den
calculate_composite_score(idea, all_ideas, channel, w) ==
    LET composite ==
            score_recency(idea) * w.num.recency_weight
          + score_cross_source_overlap(idea, all_ideas) * w.num.cross_source_weight
          + score_novelty(idea, channel) * w.num.novelty_weight
          + score_performance_potential(idea, channel).value
                * w.num.performance_weight
          + score_keyword_frequency(idea, all_ideas)
                * w.num.keyword_frequency_weight
    IN  [num |-> Min(600 * w.den, composite), den |-> 600 * w.den]

(***************************************************************************)
(* TopicScorer._deduplicate_topics.                                        *)
(***************************************************************************)
\* mutant: the ratio is taken over the candidate's own keyword count
overlap_ratio_above_own(a, b) ==
    10 * Overlap(a, b) > 7 * Cardinality(ToSet(a))

\* mutant: the ratio is taken over the smaller keyword set
overlap_ratio_above_min(a, b) ==
    10 * Overlap(a, b) > 7 * Min(Cardinality(ToSet(a)), Cardinality(ToSet(b)))

\* overlap / max(len, len) > 0.7, for keyword sets not both empty
overlap_ratio_above(a, b) ==
    10 * Overlap(a, b) > 7 * Max(Cardinality(ToSet(a)), Cardinality(ToSet(b)))

\* the division at score.py:239 is by zero
both_empty(a, b) == Max(Cardinality(ToSet(a)), Cardinality(ToSet(b))) = 0

\* the inner loop: "dup", "keep" or "raise" for the candidate keywords a
\* against the kept list, in order
RECURSIVE is_duplicate_from(_, _, _)
is_duplicate_from(a, kept, j) ==
    IF j > Len(kept) THEN "keep"
    ELSE IF both_empty(a, kept[j].keywords) THEN "raise"
    ELSE IF overlap_ratio_above(a, kept[j].keywords) THEN "dup"
    ELSE is_duplicate_from(a, kept, j + 1)

\* the outer loop: [raised, list]
RECURSIVE deduplicate_from(_, _, _)
deduplicate_from(sorted_ideas, i, kept) ==
    IF i > Len(sorted_ideas) THEN [raised |-> FALSE, list |-> kept]
    ELSE LET verdict == is_duplicate_from(sorted_ideas[i].keywords, kept, 1)
         IN  IF verdict = "raise" THEN [raised |-> TRUE, list |-> kept]
             ELSE IF verdict = "dup" THEN deduplicate_from(sorted_ideas, i + 1, kept)
             ELSE deduplicate_from(sorted_ideas, i + 1,
                                   Append(kept, sorted_ideas[i]))

deduplicate_topics(sorted_ideas) == deduplicate_from(sorted_ideas, 1, <<>>)

ScoreKeys(list) == [i \in 1..Len(list) |-> list[i].score.num]

\* the scoring loop of score_and_rank (score.py:73-74): each idea's score
\* is assigned in turn, computed against the list as it then stands
RECURSIVE assign_scores_from(_, _, _, _)
assign_scores_from(list, i, channel, w) ==
    IF i > Len(list) THEN list
    ELSE assign_scores_from(
             [list EXCEPT ![i].score =
                  calculate_composite_score(list[i], list, channel, w)],
             i + 1, channel, w)

(***************************************************************************)
(* TopicScorer.score_and_rank on the pipeline's scorer.  Nothing in it     *)
(* catches: an exception of a sub-score or of the deduplication reaches    *)
(* the caller, and no list is returned.                                    *)
(***************************************************************************)
\* the lists returned earlier hold the idea objects themselves: when the
\* same objects are scored again their new scores show in those lists
Refresh(list, scored) ==
    [i \in 1..Len(list) |->
        IF \E j \in 1..Len(scored) : scored[j].id = list[i].id
        THEN CHOOSE x \in ToSet(scored) : x.id = list[i].id
        ELSE list[i]]

\* same_objects: the batch is made of the objects of the lists returned
\* before (the gathered batch scored again, or a returned list passed back)
score_and_rank(batch, channel, name, same_objects) ==
    LET raises_scoring ==
            \E i \in 1..Len(batch) : score_performance_potential(batch[i], channel).raised
        scored == assign_scores_from(batch, 1, channel, weights)
        ranked_ideas == SortedDesc(scored, ScoreKeys(scored))
        deduplicated == deduplicate_topics(ranked_ideas)
    IN  /\ op' = name
        /\ n_ops' = n_ops + 1
        /\ weights_used' = weights
        /\ IF Len(batch) = 0
           THEN /\ result' = "ok"
                /\ ideas' = batch
                /\ ranked' = batch
                /\ prev_ranked' = ranked
           ELSE IF raises_scoring
           THEN /\ result' = "raised"
                /\ ideas' = batch
                /\ UNCHANGED <<ranked, prev_ranked>>
           ELSE IF deduplicated.raised
           THEN /\ result' = "raised"
                /\ ideas' = scored
                /\ ranked' = IF same_objects THEN Refresh(ranked, scored) ELSE ranked
                /\ prev_ranked' = IF same_objects THEN Refresh(prev_ranked, scored)
                                  ELSE prev_ranked
           ELSE /\ result' = "ok"
                /\ ideas' = scored
                /\ ranked' = deduplicated.list
                /\ prev_ranked' = IF same_objects THEN Refresh(ranked, scored)
                                  ELSE ranked
        /\ UNCHANGED <<sched, peer_used_topics, request, recommended, weights, used_topics, learn_weights, learning_data,
                       weights_file, history_file, learning_file, now, learned,
                       mark_log, hook_log>>

(***************************************************************************)
(* TopicScorer.mark_topic_used on the pipeline's scorer (pipeline.py:397). *)
(***************************************************************************)
NoPerformance == [recorded |-> FALSE]

topic_record(topic_id, keywords, performance_data) ==
    [topic_id |-> topic_id, keywords |-> keywords, used_at |-> now,
     performance |-> performance_data]

\* mutant: the slice keeps the first 100 records instead of the last 100
append_capped_first(history, record) == Prefix(Append(history, record), HistoryCap)

\* used_topics[channel].append(record); used_topics[channel][-100:]
append_capped(history, record) == Suffix(Append(history, record), HistoryCap)

mark_topic_used(topic_id, keywords, channel, performance_data, io) ==
    LET record == topic_record(topic_id, keywords, performance_data)
        history == append_capped(channel_history(used_topics, channel), record)
        new_topics == [c \in DOMAIN used_topics \cup {channel} |->
                          IF c = channel THEN history ELSE used_topics[c]]
    IN  /\ op' = "mark"
        /\ result' = "ok"
        /\ n_ops' = n_ops + 1
        /\ used_topics' = new_topics
        /\ history_file' = save_history(history_file, new_topics, io)
        /\ mark_log' = [c \in DOMAIN mark_log \cup {channel} |->
                           IF c = channel
                           THEN Append(channel_history(mark_log, channel), record)
                           ELSE mark_log[c]]
        /\ UNCHANGED <<peer_used_topics, request, recommended, weights, learn_weights, learning_data, weights_file,
                       learning_file, ideas, ranked, prev_ranked, now,
                       weights_used, learned, hook_log>>

(***************************************************************************)
(* TopicScorer.mark_topic_used on the TopicScorer of a second process that *)
(* was constructed over the same used_topics.json: the same method, on     *)
(* that instance's used_topics.                                            *)
(***************************************************************************)
\* mutant: the history is read from the document before the record is
\* appended
peer_mark_topic_used_reloading(topic_id, keywords, channel, performance_data, io) ==
    LET record == topic_record(topic_id, keywords, performance_data)
        loaded == load_history(history_file)
        history == append_capped(channel_history(loaded, channel), record)
        new_topics == [c \in DOMAIN loaded \cup {channel} |->
                          IF c = channel THEN history ELSE loaded[c]]
    IN  /\ op' = "peer_mark"
        /\ result' = "ok"
        /\ n_ops' = n_ops + 1
        /\ peer_used_topics' = new_topics
        /\ history_file' = save_history(history_file, new_topics, io)
        /\ mark_log' = [c \in DOMAIN mark_log \cup {channel} |->
                           IF c = channel
                           THEN Append(channel_history(mark_log, channel), record)
                           ELSE mark_log[c]]
        /\ UNCHANGED <<sched, weights, used_topics, learn_weights, learning_data,
                       weights_file, learning_file, ideas, ranked, prev_ranked,
                       now, weights_used, learned, hook_log, request,
                       recommended>>

peer_mark_topic_used(topic_id, keywords, channel, performance_data, io) ==
    LET record == topic_record(topic_id, keywords, performance_data)
        history == append_capped(channel_history(peer_used_topics, channel), record)
        new_topics == [c \in DOMAIN peer_used_topics \cup {channel} |->
                          IF c = channel THEN history ELSE peer_used_topics[c]]
    IN  /\ op' = "peer_mark"
        /\ result' = "ok"
        /\ n_ops' = n_ops + 1
        /\ peer_used_topics' = new_topics
        /\ history_file' = save_history(history_file, new_topics, io)
        /\ mark_log' = [c \in DOMAIN mark_log \cup {channel} |->
                           IF c = channel
                           THEN Append(channel_history(mark_log, channel), record)
                           ELSE mark_log[c]]
        /\ UNCHANGED <<sched, weights, used_topics, learn_weights, learning_data,
                       weights_file, learning_file, ideas, ranked, prev_ranked,
                       now, weights_used, learned, hook_log, request,
                       recommended>>

(***************************************************************************)
(* Ghost bookkeeping.                                                      *)
(***************************************************************************)
BagAdd(bag, x) ==
    [k \in DOMAIN bag \cup {x} |-> IF k = x
                                    THEN (IF x \in DOMAIN bag THEN bag[x] ELSE 0) + 1
                                    ELSE bag[k]]

BagCount(bag, x) == IF x \in DOMAIN bag THEN bag[x] ELSE 0

\* nothing has been asked of the recommendation functions yet
NoRequest == [kind |-> "none", niche |-> <<>>, count |-> 0, topic_keywords |-> <<>>]

\* PipelineScheduler.__init__ (scheduler.py:19-31) over a fresh database:
\* no run was counted, no invocation is in flight, no one-shot analytics
\* job is scheduled and the table of PipelineJobDB rows is empty.  hours is
\* the clock in whole hours since a midnight; swept holds the videos the
\* pending-analytics sweep of this hour has handled, collecting the video
\* whose analytics were stored last, returned what run_full_pipeline
\* returned last.
NoSchedule ==
    [hours |-> 0, daily_run_counts |-> EmptyMap, runs |-> {},
     analytics_jobs |-> {}, pipeline_jobs |-> {}, swept |-> {},
     collecting |-> 0, returned |-> "nothing"]

(***************************************************************************)
(* The state after construction on a fresh install: no document exists.    *)
(* PipelineScheduler.__init__ builds the pipeline (with its TopicScorer)   *)
(* and its own LearningEngine, which builds a second TopicScorer.          *)
(***************************************************************************)
Init ==
    /\ weights_file = NoWeightsFile
    /\ history_file = NoHistoryFile
    /\ learning_file = NoLearningFile
    /\ weights = load_weights(NoWeightsFile)
    /\ learn_weights = load_weights(NoWeightsFile)
    /\ used_topics = load_history(NoHistoryFile)
    /\ peer_used_topics = load_history(NoHistoryFile)
    /\ learning_data = load_learning_data(NoLearningFile)
    /\ ideas = <<>>
    /\ ranked = <<>>
    /\ prev_ranked = <<>>
    /\ now = 0
    /\ op = "init"
    /\ result = "ok"
    /\ weights_used = default_weights
    /\ learned = FALSE
    /\ mark_log = NoHistory
    /\ hook_log = EmptyMap
    /\ request = NoRequest
    /\ recommended = <<>>
    /\ sched = NoSchedule
    /\ n_ops = 0

(***************************************************************************)
(* LearningEngine.analyze_performance_and_learn, on the scheduler's        *)
(* engine (scheduler.py:250).  row is what the analytics table holds for   *)
(* the video; io_weights and io_learning say how the two writes end.       *)
(* Any exception is caught and logged (learn.py:83-84): what was           *)
(* changed before it stays changed.                                        *)
(***************************************************************************)
\* mutant: the early return on empty metrics is lost, the steps run on the
\* defaults that metrics.get(...) supplies
analyze_performance_and_learn_no_early_return(row, topic_keywords, hook, script, channel, io_weights, io_learning) ==
    LET metrics == calculate_performance_metrics(row)
        s1 == update_keyword_performance(learning_data, topic_keywords, metrics)
        s2 == analyze_hook_performance(s1.ld, hook, metrics)
        s3 == update_content_insights(s2.ld, script, metrics, channel)
        new_weights == update_topic_weights(learn_weights, metrics)
        saved == save_learning_data(s3.ld, learning_file, io_learning)
    IN  /\ op' = "analyze"
        /\ n_ops' = n_ops + 1
        /\ IF s1.raised \/ s2.raised \/ s3.raised
           THEN /\ result' = "error"
                /\ learning_data' = (IF s1.raised THEN s1.ld
                                     ELSE IF s2.raised THEN s2.ld ELSE s3.ld)
                /\ hook_log' = (IF s1.raised \/ s2.raised THEN hook_log
                                ELSE BagAdd(hook_log, calculate_performance_score(metrics)))
                /\ UNCHANGED <<learn_weights, weights_file, learning_file, learned>>
           ELSE /\ result' = (IF metrics.empty THEN "no_metrics" ELSE "ok")
                /\ hook_log' = BagAdd(hook_log, calculate_performance_score(metrics))
                /\ learn_weights' = new_weights
                /\ weights_file' = save_weights(weights_file, new_weights, io_weights)
                /\ learning_data' = saved.data
                /\ learning_file' = saved.doc
                /\ learned' = TRUE
        /\ UNCHANGED <<sched, peer_used_topics, request, recommended, weights, used_topics, history_file, ideas, ranked,
                       prev_ranked, now, weights_used, mark_log>>

analyze_performance_and_learn(row, topic_keywords, hook, script, channel, io_weights, io_learning) ==
    LET metrics == calculate_performance_metrics(row)
        s1 == update_keyword_performance(learning_data, topic_keywords, metrics)
        s2 == analyze_hook_performance(s1.ld, hook, metrics)
        s3 == update_content_insights(s2.ld, script, metrics, channel)
        new_weights == update_topic_weights(learn_weights, metrics)
        saved == save_learning_data(s3.ld, learning_file, io_learning)
    IN  /\ op' = "analyze"
        /\ n_ops' = n_ops + 1
        /\ IF metrics.empty
           THEN /\ result' = "no_metrics"
                /\ UNCHANGED <<learning_data, learn_weights, weights_file,
                               learning_file, learned, hook_log>>
           ELSE IF s1.raised
           THEN /\ result' = "error"
                /\ learning_data' = s1.ld
                /\ UNCHANGED <<learn_weights, weights_file, learning_file,
                               learned, hook_log>>
           ELSE IF s2.raised
           THEN /\ result' = "error"
                /\ learning_data' = s2.ld
                /\ UNCHANGED <<learn_weights, weights_file, learning_file,
                               learned, hook_log>>
           ELSE IF s3.raised
           THEN /\ result' = "error"
                /\ learning_data' = s3.ld
                /\ hook_log' = BagAdd(hook_log, calculate_performance_score(metrics))
                /\ UNCHANGED <<learn_weights, weights_file, learning_file, learned>>
           ELSE /\ result' = "ok"
                /\ hook_log' = BagAdd(hook_log, calculate_performance_score(metrics))
                /\ learn_weights' = new_weights
                /\ weights_file' = save_weights(weights_file, new_weights, io_weights)
                /\ learning_data' = saved.data
                /\ learning_file' = saved.doc
                /\ learned' = TRUE
        /\ UNCHANGED <<sched, peer_used_topics, request, recommended, weights, used_topics, history_file, ideas, ranked,
                       prev_ranked, now, weights_used, mark_log>>

(***************************************************************************)
(* TopicScorer.update_weights_from_performance, on the pipeline's scorer.  *)
(***************************************************************************)
\* the weight map it computes: each step is capped, nothing is renormalised
weights_from_performance(w, performance_data) ==
    LET n == w.num
        novelty == IF performance_data.avg_view_duration_sec > 15
                   THEN Min(40 * w.den, 105 * n.novelty_weight)
                   ELSE 100 * n.novelty_weight
        cross == IF performance_data.views > 5000
                 THEN Min(30 * w.den, 103 * n.cross_source_weight)
                 ELSE 100 * n.cross_source_weight
        recency == IF performance_data.views < 500
                   THEN Max(10 * w.den, 98 * n.recency_weight)
                   ELSE 100 * n.recency_weight
    IN  Canon([num |-> [recency_weight |-> recency,
                        cross_source_weight |-> cross,
                        novelty_weight |-> novelty,
                        performance_weight |-> 100 * n.performance_weight,
                        keyword_frequency_weight |-> 100 * n.keyword_frequency_weight],
               den |-> 100 * w.den])

update_weights_from_performance(performance_data, io) ==
    LET new_weights == weights_from_performance(weights, performance_data)
    IN  /\ op' = "update_weights"
        /\ result' = "ok"
        /\ n_ops' = n_ops + 1
        /\ weights' = new_weights
        /\ weights_file' = save_weights(weights_file, new_weights, io)
        /\ UNCHANGED <<sched, peer_used_topics, request, recommended, used_topics, learn_weights, learning_data, history_file,
                       learning_file, ideas, ranked, prev_ranked, now,
                       weights_used, learned, mark_log, hook_log>>

(***************************************************************************)
(* A restart of the process: every component is constructed again and      *)
(* loads its document.                                                     *)
(***************************************************************************)
Restart ==
    /\ op # "restart"
    /\ op' = "restart"
    /\ result' = "ok"
    /\ weights' = load_weights(weights_file)
    /\ learn_weights' = load_weights(weights_file)
    /\ used_topics' = load_history(history_file)
    /\ learning_data' = load_learning_data(learning_file)
    /\ ideas' = <<>>
    /\ ranked' = <<>>
    /\ prev_ranked' = <<>>
    /\ learned' = FALSE
    /\ UNCHANGED <<sched, peer_used_topics, request, recommended, weights_file, history_file, learning_file, now,
                   weights_used, mark_log, hook_log, n_ops>>

(***************************************************************************)
(* SpecWeights: the weight maps under learning updates, direct updates     *)
(* and restarts.                                                           *)
(***************************************************************************)
AnalyticsRows ==
    {NoRow, RowViral, RowHigh, RowGood, RowLowBoth, RowLowRetention,
     RowLowEngagement, RowLowNeither, RowLowAtThreshold, RowAverage}

PerformanceData ==
    {[avg_view_duration_sec |-> 20, views |-> 6000],
     [avg_view_duration_sec |-> 10, views |-> 100],
     [avg_view_duration_sec |-> 20, views |-> 100],
     [avg_view_duration_sec |-> 10, views |-> 1000]}

LearnWeightsStep ==
    /\ n_ops < MaxWeightOps
    /\ \E row \in AnalyticsRows, hook \in {HookEmpty, HookWatch} :
           analyze_performance_and_learn(row, <<"ai", "robot">>, hook,
                                         ScriptShort, "c1", "written", "written")

DirectWeightsStep ==
    /\ n_ops < MaxWeightOps
    /\ \E pd \in PerformanceData : update_weights_from_performance(pd, "written")

NextWeights == LearnWeightsStep \/ DirectWeightsStep \/ Restart

SpecWeights == Init /\ [][NextWeights]_vars

IsNormalized(w) == SumWeights(w) = w.den

AllPositive(w) == w.den > 0 /\ \A k \in WeightKeys : w.num[k] > 0

Metrics(row) == calculate_performance_metrics(row)

\* C1: after every analyze_performance_and_learn call returns, with or
\* without metrics, the five weights of the learning engine sum to 1.0.
C1_SumIsOneAfterLearn == op = "analyze" => IsNormalized(learn_weights)

\* C9: wherever the weights exist they sum to 1.0: right after construction
\* with no weights document (the defaults), after a learning update of the
\* weights, and after update_weights_from_performance.
C9_WeightsSumToOneEverywhere ==
    /\ op = "init" => IsNormalized(weights) /\ IsNormalized(learn_weights)
    /\ op = "analyze" /\ result = "ok" => IsNormalized(learn_weights)
    /\ op = "update_weights" => IsNormalized(weights)

\* C10: starting from the strictly positive defaults, after any sequence of
\* learning updates every one of the five weights is strictly positive.
C10_WeightsStayPositive == AllPositive(learn_weights)

\* two low-performance updates have been applied, one with both adjustments
C10_Witness ==
    /\ op = "analyze"
    /\ result = "ok"
    /\ learn_weights =
           update_topic_weights(update_topic_weights(default_weights,
                                                     Metrics(RowLowBoth)),
                                Metrics(RowLowRetention))
    /\ learn_weights.num.performance_weight * 4 < learn_weights.den

(***************************************************************************)
(* SpecScore: score_and_rank on a gathered batch, on its own output, and   *)
(* after mark_topic_used.  The process starts with the batch gathered and  *)
(* with the weights of one of three weights documents: none, or the one a  *)
(* first learning update left.                                             *)
(***************************************************************************)
KeywordLists ==
    {<<"ai", "robot", "future">>,
     <<"ai", "robot", "tech">>,
     <<"ai", "robot", "future", "x">>,
     <<"ai", "robot", "future", "tech", "x">>,
     <<"ai", "robot", "future", "z">>,
     <<"ai", "z">>,
     <<>>}

\* what the gatherer hands over, but for the id: keywords and age in hours
Gathered ==
    {[keywords |-> k, age_hours |-> 1] : k \in KeywordLists}
        \cup {[keywords |-> <<"ai", "robot", "future", "x">>, age_hours |-> 25],
              [keywords |-> <<"ai", "robot", "tech">>, age_hours |-> 100]}

Idea(i, g) ==
    [id |-> i, keywords |-> g.keywords, age_hours |-> g.age_hours,
     score |-> [num |-> 0, den |-> 1]]

Batches ==
    UNION {{[i \in 1..n |-> Idea(i, f[i])] : f \in [1..n -> Gathered]} : n \in 0..MaxBatch}

WeightDocs ==
    {NoWeightsFile}
        \cup {save_weights(NoWeightsFile,
                           update_topic_weights(default_weights, Metrics(row)), "written") :
              row \in {RowGood, RowLowBoth}}

InitScore ==
    /\ weights_file \in WeightDocs
    /\ history_file = NoHistoryFile
    /\ learning_file = NoLearningFile
    /\ weights = load_weights(weights_file)
    /\ learn_weights = load_weights(weights_file)
    /\ used_topics = load_history(NoHistoryFile)
    /\ peer_used_topics = load_history(NoHistoryFile)
    /\ learning_data = load_learning_data(NoLearningFile)
    /\ ideas \in Batches
    /\ ranked = <<>>
    /\ prev_ranked = <<>>
    /\ now = 0
    /\ op = "init"
    /\ result = "ok"
    /\ weights_used = weights
    /\ learned = FALSE
    /\ mark_log = NoHistory
    /\ hook_log = EmptyMap
    /\ request = NoRequest
    /\ recommended = <<>>
    /\ sched = NoSchedule
    /\ n_ops = 0

Returned == op \in {"score", "rescore"} /\ result = "ok"

ScoreStep ==
    /\ n_ops < MaxScoreOps
    /\ op \in {"init", "mark"}
    /\ score_and_rank(ideas, "c1", "score", TRUE)

\* score_and_rank on the list the call before returned
RescoreStep ==
    /\ n_ops < MaxScoreOps
    /\ Returned
    /\ score_and_rank(ranked, "c1", "rescore", TRUE)

\* the pipeline marks the top idea as used after publishing it
MarkStep ==
    /\ n_ops < MaxScoreOps
    /\ Returned
    /\ Len(ranked) > 0
    /\ \E channel \in Channels :
           mark_topic_used(ranked[1].id, ranked[1].keywords, channel,
                           NoPerformance, "written")
    /\ UNCHANGED sched

NextScore == ScoreStep \/ RescoreStep \/ MarkStep

SpecScore == InitScore /\ [][NextScore]_vars

Ids(list) == {list[i].id : i \in 1..Len(list)}

\* |A n B| / max(|A|, |B|) > 0.7, stated on the keyword sets
RatioAbove07(a, b) ==
    LET A == ToSet(a)
        B == ToSet(b)
        m == IF Cardinality(A) >= Cardinality(B) THEN Cardinality(A) ELSE Cardinality(B)
    IN  10 * Cardinality(A \cap B) > 7 * m

\* idea ideas[k] comes before ideas[d] in the order score_and_rank sorts to
RanksBefore(k, d) ==
    \/ ideas[k].score.num > ideas[d].score.num
    \/ ideas[k].score.num = ideas[d].score.num /\ k < d

\* C3: score_and_rank raises for no batch and no history: whenever it is
\* called, also after mark_topic_used recorded a topic, it returns a list.
C3_ScoreNeverRaises == op \in {"score", "rescore"} => result = "ok"

\* C4: under weights that sum to 1.0, every score score_and_rank assigns
\* lies in [0, 1].
C4_ScoreBounded ==
    op \in {"score", "rescore"} /\ IsNormalized(weights_used) =>
        \A i \in 1..Len(ideas) :
            /\ 0 <= ideas[i].score.num
            /\ ideas[i].score.num <= ideas[i].score.den

\* a batch of two or more was scored under normalised weights, one score
\* strictly inside (0, 1)
C4_Witness ==
    /\ Returned
    /\ IsNormalized(weights_used)
    /\ Len(ideas) >= 2
    /\ \E i \in 1..Len(ideas) :
           0 < ideas[i].score.num /\ ideas[i].score.num < ideas[i].score.den

\* C5: in the returned list every pair has overlap ratio <= 0.7, and every
\* candidate dropped has ratio > 0.7 with a returned candidate that sorts
\* before it.
C5_DedupExact ==
    Returned =>
        /\ \A i, j \in 1..Len(ranked) :
               i # j => ~RatioAbove07(ranked[i].keywords, ranked[j].keywords)
        /\ \A d \in 1..Len(ideas) :
               ideas[d].id \notin Ids(ranked) =>
                   \E k \in 1..Len(ideas) :
                       /\ ideas[k].id \in Ids(ranked)
                       /\ RatioAbove07(ideas[d].keywords, ideas[k].keywords)
                       /\ RanksBefore(k, d)

\* a pair with ratio 2/3 was kept and a candidate with ratio 3/4 dropped
C5_Witness ==
    /\ Returned
    /\ \E i, j \in 1..Len(ranked) :
           /\ i # j
           /\ Cardinality(ToSet(ranked[i].keywords)) = 3
           /\ Cardinality(ToSet(ranked[j].keywords)) = 3
           /\ Overlap(ranked[i].keywords, ranked[j].keywords) = 2
    /\ \E d \in 1..Len(ideas) :
           /\ ideas[d].id \notin Ids(ranked)
           /\ \E k \in 1..Len(ranked) :
                  /\ Overlap(ideas[d].keywords, ranked[k].keywords) = 3
                  /\ Cardinality(ToSet(ideas[d].keywords)
                                   \cup ToSet(ranked[k].keywords)) = 4

\* C6: score_and_rank on its own output returns, and returns the same set
\* of candidates.
C6_RescoreKeepsAll ==
    op = "rescore" => result = "ok" /\ Ids(ranked) = Ids(prev_ranked)

\* the second call reordered a list of two or more and dropped nothing
C6_Witness ==
    /\ op = "rescore"
    /\ result = "ok"
    /\ Len(ranked) >= 2
    /\ Len(ranked) = Len(prev_ranked)
    /\ \E i \in 1..Len(ranked) : ranked[i].id # prev_ranked[i].id

(***************************************************************************)
(* SpecLoop: the feedback loop inside one process.  The scheduler's        *)
(* learning engine learns, the pipeline's scorer scores the next gathered  *)
(* batch, and the process may restart.                                     *)
(***************************************************************************)
LoopBatches ==
    {<<Idea(1, [keywords |-> <<"ai", "robot", "future">>, age_hours |-> 1])>>,
     <<Idea(1, [keywords |-> <<"ai", "robot", "future">>, age_hours |-> 1]),
       Idea(2, [keywords |-> <<"ai", "robot", "tech">>, age_hours |-> 100])>>}

LearnLoopStep ==
    /\ n_ops < MaxLoopOps
    /\ \E row \in AnalyticsRows, hook \in {HookEmpty, HookWatch, HookWhy},
          script \in {ScriptShort, ScriptCta} :
           analyze_performance_and_learn(row, <<"ai", "robot">>, hook, script,
                                         "c1", "written", "written")

ScoreLoopStep ==
    /\ n_ops < MaxLoopOps
    /\ \E batch \in LoopBatches : score_and_rank(batch, "c1", "score", FALSE)

NextLoop == LearnLoopStep \/ ScoreLoopStep \/ Restart

SpecLoop == Init /\ [][NextLoop]_vars

\* C2: once a learning update has changed the weights, the next
\* score_and_rank of the pipeline's scorer in the same process (no restart
\* since) uses the weight map the learning engine now holds.
C2_ScoreUsesLearnedWeights ==
    op = "score" /\ learned => weights_used = learn_weights

(***************************************************************************)
(* SpecHistory: mark_topic_used, over and over, on two channels.  The      *)
(* topic marked is the channel's next one: its id is its number.           *)
(***************************************************************************)
MarkHistoryStep ==
    /\ n_ops < MaxMarks
    /\ \E channel \in Channels :
           mark_topic_used(Len(channel_history(mark_log, channel)) + 1,
                           <<"ai", "robot", "future">>, channel,
                           NoPerformance, "written")
    /\ UNCHANGED sched

NextHistory == MarkHistoryStep

SpecHistory == Init /\ [][NextHistory]_vars

\* C7: after n mark_topic_used calls for a channel its history is exactly
\* the min(n, 100) records appended last, in the order appended; calls for
\* another channel leave it alone.
C7_HistoryIsLastHundred ==
    \A c \in Channels :
        LET history == channel_history(used_topics, c)
            log == channel_history(mark_log, c)
            kept == IF Len(log) <= 100 THEN Len(log) ELSE 100
        IN  /\ Len(history) = kept
            /\ \A i \in 1..kept : history[i] = log[Len(log) - kept + i]

\* one channel was marked 101 times and lost its oldest record, the other
\* channel was marked once
C7_Witness ==
    /\ op = "mark"
    /\ \E c, d \in Channels :
           /\ c # d
           /\ Len(channel_history(mark_log, c)) = 101
           /\ Len(channel_history(used_topics, c)) = 100
           /\ used_topics[c][1].topic_id = 2
           /\ Len(channel_history(used_topics, d)) = 1

(***************************************************************************)
(* SpecHooks: learning update after learning update, each with metrics     *)
(* and a hook, so that each inserts a hook.                                *)
(***************************************************************************)
HookRows == {RowViral, RowLowNeither}

HookStep ==
    /\ n_ops < MaxHookInserts
    /\ \E row \in HookRows :
           analyze_performance_and_learn(row, <<>>, HookWatch, ScriptShort,
                                         "c1", "written", "written")

NextHooks == HookStep

SpecHooks == Init /\ [][NextHooks]_vars

RECURSIVE BagSize(_)
BagSize(bag) ==
    IF DOMAIN bag = {} THEN 0
    ELSE LET x == CHOOSE x \in DOMAIN bag : TRUE
         IN  bag[x] + BagSize([k \in DOMAIN bag \ {x} |-> bag[k]])

KeptHooks(p) ==
    Cardinality({i \in 1..Len(learning_data.successful_hooks) :
                    learning_data.successful_hooks[i].performance = p})

\* C8: successful_hooks has at most 50 entries, is sorted by performance,
\* highest first, and holds the 50 highest performances of all the hooks
\* ever inserted: what is missing is no better than anything kept.
C8_HooksAreTopFifty ==
    LET hooks == learning_data.successful_hooks
        inserted == BagSize(hook_log)
    IN  /\ Len(hooks) <= 50
        /\ Len(hooks) = (IF inserted <= 50 THEN inserted ELSE 50)
        /\ \A i \in 1..Len(hooks) :
               /\ hooks[i].performance \in DOMAIN hook_log
               /\ i < Len(hooks) => hooks[i].performance >= hooks[i + 1].performance
        /\ \A p \in DOMAIN hook_log :
               /\ KeptHooks(p) <= hook_log[p]
               /\ KeptHooks(p) < hook_log[p] =>
                      \A i \in 1..Len(hooks) : hooks[i].performance >= p

\* more than 50 hooks were inserted, of differing performance, and one of
\* the lowest was evicted
C8_Witness ==
    LET hooks == learning_data.successful_hooks
    IN  /\ op = "analyze"
        /\ BagSize(hook_log) > 50
        /\ Len(hooks) = 50
        /\ hooks[1].performance > hooks[50].performance
        /\ \E p \in DOMAIN hook_log : KeptHooks(p) < hook_log[p]

(***************************************************************************)
(* The learning update without metrics, and what it persists.              *)
(***************************************************************************)
\* C11: a call for a video without metrics changes nothing: the learning
\* state in memory, the weights in memory and both documents stay as they
\* were, and the call does not end in an error.
C11_NoMetricsIsNoOp ==
    [][(op' = "analyze" /\ result' = "no_metrics") =>
          UNCHANGED <<learning_data, learn_weights, weights, weights_file,
                      learning_file, used_topics, history_file>>]_vars

\* a call without metrics came after an update that had written both
\* documents
C11_Witness ==
    /\ op = "analyze"
    /\ result = "no_metrics"
    /\ learning_file.exists
    /\ weights_file.exists
    /\ Len(learning_data.successful_hooks) = 1

\* C12: after every call for which metrics were available both documents
\* have been written and hold what is in memory: the weights document the
\* learning engine's weights, the learning document its learning state.
C12_DocumentsEqualMemory ==
    op = "analyze" /\ result # "no_metrics" =>
        /\ weights_file.exists
        /\ weights_file.w = learn_weights
        /\ learning_file.exists
        /\ ~learning_file.corrupt
        /\ learning_file.data = learning_data

(***************************************************************************)
(* SpecStartup: documents get lost or damaged on disk between runs, the    *)
(* process restarts and goes on learning and marking.                      *)
(***************************************************************************)
MaxStartupOps == 3     \* operations in SpecStartup

\* the file system loses a document or leaves one that does not parse
DamageDocument ==
    /\ op # "damage"
    /\ op' = "damage"
    /\ result' = "ok"
    /\ \/ /\ weights_file.exists
          /\ weights_file' \in {NoWeightsFile, [weights_file EXCEPT !.corrupt = TRUE]}
          /\ UNCHANGED <<learning_file, history_file>>
       \/ /\ learning_file.exists
          /\ learning_file' \in {NoLearningFile, [learning_file EXCEPT !.corrupt = TRUE]}
          /\ UNCHANGED <<weights_file, history_file>>
       \/ /\ history_file.exists
          /\ history_file' \in {NoHistoryFile, [history_file EXCEPT !.corrupt = TRUE]}
          /\ UNCHANGED <<weights_file, learning_file>>
    /\ UNCHANGED <<sched, peer_used_topics, request, recommended, weights, used_topics, learn_weights, learning_data, ideas,
                   ranked, prev_ranked, now, weights_used, learned, mark_log,
                   hook_log, n_ops>>

StartupLearnStep ==
    /\ n_ops < MaxStartupOps
    /\ \E row \in {NoRow, RowViral, RowGood} :
           analyze_performance_and_learn(row, <<"ai", "robot">>, HookWatch,
                                         ScriptShort, "c1", "written", "written")

StartupMarkStep ==
    /\ n_ops < MaxStartupOps
    /\ mark_topic_used(n_ops + 1, <<"ai", "robot", "future">>, "c1",
                       NoPerformance, "written")
    /\ UNCHANGED sched

NextStartup == StartupLearnStep \/ StartupMarkStep \/ DamageDocument \/ Restart

SpecStartup == Init /\ [][NextStartup]_vars

LoadFails(doc) == ~doc.exists \/ doc.corrupt

\* C13: a restart over a missing or corrupt document leaves the in-memory
\* default for it (default weights, empty history, the empty learning state
\* with its collections), and the learning update that follows, given
\* metrics and a hook, completes as on a fresh install: it records its
\* statistics and updates the weights.
C13_LoadFailureStartsFresh ==
    [][/\ op' = "restart" =>
              /\ LoadFails(weights_file') =>
                     weights' = default_weights /\ learn_weights' = default_weights
              /\ LoadFails(history_file') => used_topics' = NoHistory
              /\ LoadFails(learning_file') => learning_data' = fresh_learning_data
       /\ op = "restart" /\ op' = "analyze" /\ result' # "no_metrics" =>
              /\ result' = "ok"
              /\ learned'
              /\ Len(learning_data'.successful_hooks) =
                     Len(learning_data.successful_hooks) + 1]_vars

(***************************************************************************)
(* SpecPersist: marking, learning and direct weight updates while the      *)
(* writes of the documents may fail.                                       *)
(***************************************************************************)
MaxPersistOps == 3     \* operations in SpecPersist

PersistMarkStep ==
    /\ n_ops < MaxPersistOps
    /\ \E io \in IoOutcomes :
           mark_topic_used(n_ops + 1, <<"ai", "robot", "future">>, "c1",
                           NoPerformance, io)
    /\ UNCHANGED sched

PersistLearnStep ==
    /\ n_ops < MaxPersistOps
    /\ \E row \in {RowViral, RowGood}, io_weights \in IoOutcomes,
          io_learning \in IoOutcomes :
           analyze_performance_and_learn(row, <<"ai", "robot">>, HookWatch,
                                         ScriptShort, "c1", io_weights, io_learning)

PersistWeightsStep ==
    /\ n_ops < MaxPersistOps
    /\ \E io \in IoOutcomes :
           update_weights_from_performance(
               [avg_view_duration_sec |-> 20, views |-> 6000], io)

NextPersist == PersistMarkStep \/ PersistLearnStep \/ PersistWeightsStep \/ Restart

SpecPersist == Init /\ [][NextPersist]_vars

Last(seq) == seq[Len(seq)]

\* C14: whether or not the write succeeds, mark_topic_used, the learning
\* update and the direct weight update end without an error and leave the
\* update in memory; the document is then either the one just written or
\* exactly what it was before the call.
C14_FailedSaveKeepsDocument ==
    [][/\ op' \in {"mark", "analyze", "update_weights"} => result' = "ok"
       /\ op' = "mark" =>
              /\ Last(used_topics'["c1"]) = Last(mark_log'["c1"])
              /\ history_file' \in
                     {history_file,
                      [exists |-> TRUE, corrupt |-> FALSE, data |-> used_topics']}
       /\ op' = "analyze" =>
              /\ learn_weights' \in {update_topic_weights(learn_weights, Metrics(row)) :
                                        row \in {RowViral, RowGood}}
              /\ Len(learning_data'.successful_hooks) =
                     Len(learning_data.successful_hooks) + 1
              /\ weights_file' \in
                     {weights_file,
                      [exists |-> TRUE, corrupt |-> FALSE, w |-> learn_weights']}
              /\ learning_file' \in
                     {learning_file,
                      [exists |-> TRUE, corrupt |-> FALSE, data |-> learning_data']}
       /\ op' = "update_weights" =>
              /\ weights' # weights
              /\ weights_file' \in
                     {weights_file,
                      [exists |-> TRUE, corrupt |-> FALSE, w |-> weights']}]_vars

(***************************************************************************)
(* SpecShared: two processes, each with a TopicScorer constructed over the *)
(* same used_topics.json, mark topics of the same channels in any order.   *)
(* Topic ids tell the writers apart: this process counts up from 1, the    *)
(* second process down from -1.                                            *)
(***************************************************************************)
MaxSharedOps == 4      \* mark_topic_used calls in SpecShared

SharedMarkStep ==
    /\ n_ops < MaxSharedOps
    /\ \E channel \in Channels :
           mark_topic_used(n_ops + 1, <<"ai", "robot", "future">>, channel,
                           NoPerformance, "written")
    /\ UNCHANGED sched

PeerMarkStep ==
    /\ n_ops < MaxSharedOps
    /\ \E channel \in Channels :
           peer_mark_topic_used(-(n_ops + 1), <<"ai", "robot", "tech">>, channel,
                                NoPerformance, "written")

NextShared == SharedMarkStep \/ PeerMarkStep

SpecShared == Init /\ [][NextShared]_vars

\* the records of the log that the persisted document lacks
Dropped(c) ==
    LET log == channel_history(mark_log, c)
        doc == channel_history(load_history(history_file), c)
    IN  {i \in 1..Len(log) : \A j \in 1..Len(doc) : doc[j] # log[i]}

\* C15: with two instances over one history document and no mutual
\* exclusion, once both have marked a topic of the same channel the
\* document lacks a record that one of them appended: the write of the one
\* overwrote the write of the other.
C15_UnsyncedWritersDropRecord ==
    \A c \in Channels :
        LET log == channel_history(mark_log, c)
        IN  (/\ \E i \in 1..Len(log) : log[i].topic_id > 0
             /\ \E i \in 1..Len(log) : log[i].topic_id < 0)
                => Dropped(c) # {}

\* both processes marked a topic of c1, this one last, and the document
\* lacks the record of the second process
C15_Witness ==
    LET log == channel_history(mark_log, "c1")
    IN  /\ op = "mark"
        /\ Len(log) = 2
        /\ log[1].topic_id < 0
        /\ log[2].topic_id > 0
        /\ Dropped("c1") = {1}
        /\ Len(channel_history(peer_used_topics, "c1")) = 1

(***************************************************************************)
(* LearningEngine.get_keyword_recommendations and get_hook_recommendations. *)
(* str.lower() and the substring test `a in b` work on characters: Letters  *)
(* spells the lower-case words of the vocabulary.                           *)
(***************************************************************************)
Letters(word) ==
    CASE word = "ai" -> <<"a", "i">>
      [] word = "airfryer" -> <<"a", "i", "r", "f", "r", "y", "e", "r">>
      [] word = "chef" -> <<"c", "h", "e", "f">>
      [] word = "robot" -> <<"r", "o", "b", "o", "t">>
      [] word = "robots" -> <<"r", "o", "b", "o", "t", "s">>
      [] word = "learn" -> <<"l", "e", "a", "r", "n">>
      [] word = "watch" -> <<"w", "a", "t", "c", "h">>
      [] word = "tech" -> <<"t", "e", "c", "h">>
      [] word = "why?" -> <<"w", "h", "y", "?">>
      [] word = "5" -> <<"5">>
      [] word = "AI" -> <<"A", "I">>
      [] word = "Robots" -> <<"R", "o", "b", "o", "t", "s">>
      [] word = "Watch" -> <<"W", "a", "t", "c", "h">>
      [] word = "Learn" -> <<"L", "e", "a", "r", "n">>

\* a in b, on letter sequences
is_substring(a, b) ==
    \E k \in 0..(Len(b) - Len(a)) : SubSeq(b, k + 1, k + Len(a)) = a

\* a.lower() in b.lower(), for words
word_in_word(a, b) == is_substring(Letters(lower(a)), Letters(lower(b)))

\* keyword.lower() in hook_text: a keyword without blanks lies inside one word
keyword_in_hook(keyword, hook_text) ==
    \E i \in 1..Len(hook_text) : word_in_word(keyword, hook_text[i])

\* any(niche_word in keyword.lower() for niche_word in niche.lower().split())
matches_niche(keyword, niche) ==
    \E i \in 1..Len(niche) : word_in_word(niche[i], keyword)

\* the orders in which a dict with these keys may list them
Orders(keys) ==
    {o \in [1..Cardinality(keys) -> keys] : \A k \in keys : \E i \in DOMAIN o : o[i] = k}

RECURSIVE ProductOfDens(_, _, _)
ProductOfDens(kp, order, i) ==
    IF i > Len(order) THEN 1
    ELSE kp[order[i]].avg_performance.den * ProductOfDens(kp, order, i + 1)

\* avg_performance of the keywords of order, on one common denominator
AvgPerformanceKeys(kp, order) ==
    LET d == ProductOfDens(kp, order, 1)
    IN  [i \in 1..Len(order) |->
            kp[order[i]].avg_performance.num * (d \div kp[order[i]].avg_performance.den)]

\* the loop over sorted_keywords[:count * 2]
RECURSIVE recommend_from(_, _, _, _, _)
recommend_from(top, i, niche, count, recommendations) ==
    IF i > Len(top) THEN recommendations
    ELSE LET keyword == top[i]
             appended == IF matches_niche(keyword, niche)
                         THEN Append(recommendations, keyword)
                         ELSE IF Len(recommendations) < count
                         THEN Append(recommendations, keyword)
                         ELSE recommendations
         IN  IF Len(appended) >= count THEN appended
             ELSE recommend_from(top, i + 1, niche, count, appended)

\* the list get_keyword_recommendations returns; order is the order in which
\* the keyword_performance dict lists its keys
keyword_recommendations(ld, order, niche, count) ==
    IF ~ld.has_keys \/ DOMAIN ld.keyword_performance = {} THEN <<>>
    ELSE LET kp == ld.keyword_performance
             sorted_keywords == SortedDesc(order, AvgPerformanceKeys(kp, order))
             top == Prefix(sorted_keywords, count * 2)
         IN  Prefix(recommend_from(top, 1, niche, count, <<>>), count)

get_keyword_recommendations(niche, count) ==
    /\ op' = "recommend_keywords"
    /\ result' = "ok"
    /\ request' = [kind |-> "keywords", niche |-> niche, count |-> count,
                   topic_keywords |-> <<>>]
    /\ \E order \in Orders(IF learning_data.has_keys
                           THEN DOMAIN learning_data.keyword_performance ELSE {}) :
           recommended' = keyword_recommendations(learning_data, order, niche, count)
    /\ UNCHANGED <<sched, weights, used_topics, peer_used_topics, learn_weights,
                   learning_data, weights_file, history_file, learning_file,
                   ideas, ranked, prev_ranked, now, weights_used, learned,
                   mark_log, hook_log, n_ops>>

\* the hooks whose text holds one of the keywords, in stored order
RECURSIVE relevant_hooks_from(_, _, _)
relevant_hooks_from(successful_hooks, i, topic_keywords) ==
    IF i > Len(successful_hooks) THEN <<>>
    ELSE LET hook_data_i == successful_hooks[i]
             rest == relevant_hooks_from(successful_hooks, i + 1, topic_keywords)
         IN  IF \E k \in 1..Len(topic_keywords) :
                    keyword_in_hook(topic_keywords[k], hook_data_i.text)
             THEN <<hook_data_i>> \o rest
             ELSE rest

\* get_hook_recommendations without the cut to five at learn.py:291
hook_recommendations_uncut(ld, topic_keywords) ==
    IF ~ld.has_keys \/ Len(ld.successful_hooks) = 0 THEN <<>>
    ELSE LET matching == relevant_hooks_from(ld.successful_hooks, 1, topic_keywords)
             relevant_hooks == IF Len(matching) = 0
                               THEN Prefix(ld.successful_hooks, 10)
                               ELSE matching
         IN  [i \in 1..Len(relevant_hooks) |-> relevant_hooks[i].text]

\* the list get_hook_recommendations returns
hook_recommendations(ld, topic_keywords) ==
    IF ~ld.has_keys \/ Len(ld.successful_hooks) = 0 THEN <<>>
    ELSE LET matching == relevant_hooks_from(ld.successful_hooks, 1, topic_keywords)
             relevant_hooks == IF Len(matching) = 0
                               THEN Prefix(ld.successful_hooks, 10)
                               ELSE matching
             first == Prefix(relevant_hooks, 5)
         IN  [i \in 1..Len(first) |-> first[i].text]

get_hook_recommendations(topic_keywords) ==
    /\ op' = "recommend_hooks"
    /\ result' = "ok"
    /\ request' = [kind |-> "hooks", niche |-> <<>>, count |-> 0,
                   topic_keywords |-> topic_keywords]
    /\ recommended' = hook_recommendations(learning_data, topic_keywords)
    /\ UNCHANGED <<sched, weights, used_topics, peer_used_topics, learn_weights,
                   learning_data, weights_file, history_file, learning_file,
                   ideas, ranked, prev_ranked, now, weights_used, learned,
                   mark_log, hook_log, n_ops>>

(***************************************************************************)
(* SpecRecommend: learning updates build up the keyword statistics and the *)
(* hooks; after any of them the recommendation functions are asked.        *)
(***************************************************************************)
MaxRecLearns == 6      \* learning updates in SpecRecommend

RecLearnInputs ==
    {[row |-> RowViral, keywords |-> <<"chef">>, hook |-> HookWatch],
     [row |-> RowGood, keywords |-> <<"ai", "airfryer">>, hook |-> HookWhy],
     [row |-> RowLowNeither, keywords |-> <<"robot">>, hook |-> HookWatch]}

RecLearnStep ==
    /\ n_ops < MaxRecLearns
    /\ \E in \in RecLearnInputs :
           analyze_performance_and_learn(in.row, in.keywords, in.hook,
                                         ScriptShort, "c1", "written", "written")

Niches == {<<"ai">>, <<"AI", "tech">>, <<"chef">>}

KeywordRecStep ==
    /\ op \in {"init", "analyze"}
    /\ \E niche \in Niches, count \in {1, 2} :
           get_keyword_recommendations(niche, count)

HookRecStep ==
    /\ op \in {"init", "analyze"}
    /\ \E topic_keywords \in {<<"chef">>, <<"Learn", "ai">>, <<"robot">>, <<>>} :
           get_hook_recommendations(topic_keywords)

NextRecommend == RecLearnStep \/ KeywordRecStep \/ HookRecStep

SpecRecommend == Init /\ [][NextRecommend]_vars

StoredKeywords ==
    IF learning_data.has_keys THEN DOMAIN learning_data.keyword_performance ELSE {}

\* C16: get_keyword_recommendations returns at most count keywords, every
\* keyword that matches a niche word stands ahead of every keyword that
\* does not, and a keyword that does not match is returned only when every
\* stored keyword that matches is returned too.
C16_NicheMatchesFirst ==
    op = "recommend_keywords" =>
        LET niche == request.niche
        IN  /\ Len(recommended) <= request.count
            /\ \A i \in 1..Len(recommended) : recommended[i] \in StoredKeywords
            /\ \A i, j \in 1..Len(recommended) :
                   i < j /\ matches_niche(recommended[j], niche)
                       => matches_niche(recommended[i], niche)
            /\ (\E i \in 1..Len(recommended) : ~matches_niche(recommended[i], niche))
                   => \A k \in StoredKeywords :
                          matches_niche(k, niche)
                              => \E i \in 1..Len(recommended) : recommended[i] = k

HookMatches(topic_keywords, text) ==
    \E k \in 1..Len(topic_keywords) : keyword_in_hook(topic_keywords[k], text)

\* C17: get_hook_recommendations returns at most 5 texts of stored hooks;
\* if some stored hook holds one of the keywords, every text returned holds
\* one; if none does, what is returned is the top 10 of the stored hooks.
C17_HooksMatchOrTopTen ==
    op = "recommend_hooks" =>
        LET hooks == learning_data.successful_hooks
            topic_keywords == request.topic_keywords
            some_match == \E i \in 1..Len(hooks) : HookMatches(topic_keywords, hooks[i].text)
            top_ten == Prefix(hooks, 10)
        IN  /\ Len(recommended) <= 5
            /\ \A i \in 1..Len(recommended) :
                   \E j \in 1..Len(hooks) : hooks[j].text = recommended[i]
            /\ some_match =>
                   \A i \in 1..Len(recommended) : HookMatches(topic_keywords, recommended[i])
            /\ ~some_match =>
                   recommended = [i \in 1..Len(top_ten) |-> top_ten[i].text]

\* C17 as the code has it: get_hook_recommendations returns at most 5 texts
\* of stored hooks; if some stored hook holds one of the keywords, the texts
\* returned are those of the first five hooks that hold one, in stored
\* order; if none does, they are the first five of the stored hooks, which
\* are the first five of the top 10.
C17_HooksMatchOrTopFive ==
    op = "recommend_hooks" =>
        LET hooks == learning_data.successful_hooks
            topic_keywords == request.topic_keywords
            some_match == \E i \in 1..Len(hooks) : HookMatches(topic_keywords, hooks[i].text)
            top_five == Prefix(Prefix(hooks, 10), 5)
        IN  /\ Len(recommended) <= 5
            /\ \A i \in 1..Len(recommended) :
                   \E j \in 1..Len(hooks) : hooks[j].text = recommended[i]
            /\ some_match =>
                   /\ Len(recommended) >= 1
                   /\ \A i \in 1..Len(recommended) :
                          HookMatches(topic_keywords, recommended[i])
            /\ ~some_match =>
                   recommended = [i \in 1..Len(top_five) |-> top_five[i].text]

\* six hooks are stored, none holds a keyword, and five texts came back
C17_Witness ==
    /\ op = "recommend_hooks"
    /\ Len(learning_data.successful_hooks) = 6
    /\ \A i \in 1..6 :
           ~HookMatches(request.topic_keywords, learning_data.successful_hooks[i].text)
    /\ Len(recommended) = 5

(***************************************************************************)
(* The order of the list score_and_rank returns.                           *)
(***************************************************************************)
\* a's score is at least b's; the scores of one call stand over the same
\* denominator
ScoreAtLeast(a, b) == a.score.den = b.score.den /\ a.score.num >= b.score.num

\* the place of the candidate with this id in the batch that was scored
PlaceInBatch(id) == CHOOSE k \in 1..Len(ideas) : ideas[k].id = id

\* the returned list is ordered, stable, headed by a best candidate and
\* holds positive scores only
RankedInOrder ==
    /\ Len(ranked) > 0
    /\ \A i, j \in 1..Len(ranked) :
           i < j =>
               /\ ScoreAtLeast(ranked[i], ranked[j])
               /\ ScoreAtLeast(ranked[j], ranked[i])
                      => PlaceInBatch(ranked[i].id) < PlaceInBatch(ranked[j].id)
    /\ \A k \in 1..Len(ideas) : ScoreAtLeast(ranked[1], ideas[k])
    /\ \A i \in 1..Len(ranked) : ranked[i].score.num > 0 /\ ranked[i].score.den > 0

\* C18: for every non-empty batch score_and_rank returns a non-empty list
\* in non-increasing order of score, equal scores in their input order, its
\* first element a highest-scored candidate of the batch and every score
\* above 0; an empty batch is returned as it is.
C18_RankedNonEmptyInOrder ==
    op \in {"score", "rescore"} =>
        /\ result = "ok"
        /\ IF Len(ideas) = 0 THEN ranked = ideas ELSE RankedInOrder

(***************************************************************************)
(* SafetyChecker.check_content (nlp/safety.py).  A title, a script and a   *)
(* banned term are lists of words; in the text the words of one string are *)
(* joined by blanks, the title and the script by a newline.  The reviewer  *)
(* model's answer is an input: its "safe" flag, its issues and its         *)
(* severity, or no answer at all when both requests fail.                  *)
(***************************************************************************)
\* the characters of a string given as its words
RECURSIVE Spell(_, _)
Spell(words, i) ==
    IF i > Len(words) THEN <<>>
    ELSE Letters(words[i])
             \o (IF i < Len(words) THEN <<" ">> ELSE <<>>)
             \o Spell(words, i + 1)

\* str.lower() of a string given as its words
SpellLower(words) == Spell([i \in 1..Len(words) |-> lower(words[i])], 1)

\* what one issue of the reviewer's answer holds: a tone pattern, a hard-risk
\* pattern, both, or neither
IssueKinds == {"tone", "hard", "tone_and_hard", "other"}

contains_tone(issue) == issue \in {"tone", "tone_and_hard"}

contains_hard_risk(issue) == issue \in {"hard", "tone_and_hard"}

\* _is_soft_tone_only
is_soft_tone_only(issues, severity) ==
    IF severity = "high" THEN FALSE
    ELSE IF Len(issues) = 0 THEN FALSE
    ELSE IF \E i \in 1..Len(issues) : contains_hard_risk(issues[i]) THEN FALSE
    ELSE \A i \in 1..Len(issues) : contains_tone(issues[i])

\* what check_content does once the banned-term scan found nothing
reviewed(llm, profile, dry_run_tolerant) ==
    IF llm.failed THEN "raised"
    ELSE IF llm.safe THEN "approved"
    ELSE IF is_soft_tone_only(llm.issues, llm.severity)
              /\ (profile \in {"edgy", "lenient"}
                     \/ (profile = "strict" /\ dry_run_tolerant))
    THEN "approved"
    ELSE "blocked"

\* check_content with the text left as written: only the terms are lowered
content_is_safe_text_as_written(title, script, banned_terms, llm, profile, dry_run_tolerant) ==
    LET text == Spell(title, 1) \o <<"\n">> \o Spell(script, 1)
    IN  IF \E k \in 1..Len(banned_terms) :
               /\ Len(banned_terms[k]) > 0
               /\ is_substring(SpellLower(banned_terms[k]), text)
        THEN "blocked"
        ELSE reviewed(llm, profile, dry_run_tolerant)

\* what check_content returns: "approved" for True, "blocked" for False
content_is_safe(title, script, banned_terms, llm, profile, dry_run_tolerant) ==
    LET text == SpellLower(title) \o <<"\n">> \o SpellLower(script)
    IN  IF \E k \in 1..Len(banned_terms) :
               /\ Len(banned_terms[k]) > 0
               /\ is_substring(SpellLower(banned_terms[k]), text)
        THEN "blocked"
        ELSE reviewed(llm, profile, dry_run_tolerant)

check_content(title, script, banned_terms, llm, profile, dry_run_tolerant) ==
    /\ op' = "check_content"
    /\ result' = content_is_safe(title, script, banned_terms, llm, profile,
                                  dry_run_tolerant)
    /\ request' = [kind |-> "safety", title |-> title, script |-> script,
                   banned_terms |-> banned_terms, llm |-> llm,
                   profile |-> profile, dry_run_tolerant |-> dry_run_tolerant]
    /\ UNCHANGED <<sched, weights, used_topics, peer_used_topics, learn_weights,
                   learning_data, weights_file, history_file, learning_file,
                   ideas, ranked, prev_ranked, now, weights_used, learned,
                   mark_log, hook_log, recommended, n_ops>>

(***************************************************************************)
(* SpecSafety: the writer asks the safety check about generated content,   *)
(* under every profile of the environment and every answer of the reviewer *)
(* model.                                                                  *)
(***************************************************************************)
Titles == {<<"AI", "chef">>, <<"Watch", "Robots">>, <<"tech">>}

Scripts == {<<"Robots", "learn">>, <<"chef">>, <<>>}

\* the channel's banned_terms: none, the empty term, a word in another
\* case than the content's, a part of a word, a phrase, a term not used
BannedTermLists ==
    {<<>>, << <<>> >>, << <<"ai">> >>, << <<"AI">> >>, << <<"robot">> >>,
     << <<"Robots", "Learn">> >>, << <<"airfryer">> >>,
     << <<"airfryer">>, <<"chef">> >>}

LlmAnswers ==
    {[failed |-> TRUE, safe |-> FALSE, issues |-> <<>>, severity |-> "medium"]}
        \cup {[failed |-> FALSE, safe |-> s, issues |-> i, severity |-> v] :
                  s \in BOOLEAN,
                  i \in {<<>>, <<"tone">>, <<"tone", "hard">>, <<"tone", "other">>,
                         <<"tone_and_hard">>},
                  v \in {"low", "medium", "high"}}

Profiles == {"edgy", "lenient", "strict", "other"}

\* one call in a process: check_content keeps nothing from call to call
SafetyStep ==
    /\ op = "init"
    /\ \E title \in Titles, script \in Scripts, banned_terms \in BannedTermLists,
          llm \in LlmAnswers, profile \in Profiles, dry_run_tolerant \in BOOLEAN :
           check_content(title, script, banned_terms, llm, profile, dry_run_tolerant)

NextSafety == SafetyStep

SpecSafety == Init /\ [][NextSafety]_vars

\* the string holds the term, whatever the case of either
HoldsTerm(words, term) == is_substring(SpellLower(term), SpellLower(words))

\* the title or the script of the last call holds a banned term
HoldsBannedTerm ==
    \E k \in 1..Len(request.banned_terms) :
        /\ Len(request.banned_terms[k]) > 0
        /\ \/ HoldsTerm(request.title, request.banned_terms[k])
           \/ HoldsTerm(request.script, request.banned_terms[k])

\* C19: content whose title or script holds a banned term of the channel,
\* in whatever case, is not approved: check_content returns False whatever
\* the reviewer model answers and whatever the safety profile is.
C19_BannedTermBlocks ==
    op = "check_content" /\ HoldsBannedTerm => result = "blocked"

\* a title in capitals holds a lower-case banned term, the reviewer model
\* called the content safe under the edgy profile, and it was blocked
C19_Witness ==
    /\ op = "check_content"
    /\ request.title = <<"AI", "chef">>
    /\ request.banned_terms = << <<"ai">> >>
    /\ ~request.llm.failed
    /\ request.llm.safe
    /\ request.profile = "edgy"
    /\ result = "blocked"

(***************************************************************************)
(* The learning update of the weights for a video of category "low".       *)
(***************************************************************************)
\* the factor of each weight in hundredths, as the claim gives them
LowFactors(metrics) ==
    [k \in WeightKeys |->
        IF k = "novelty_weight" /\ metrics.retention_rate < 30 THEN 105
        ELSE IF k = "performance_weight" /\ metrics.retention_rate < 30 THEN 95
        ELSE IF k = "cross_source_weight" /\ metrics.engagement_rate < 100 THEN 103
        ELSE IF k = "recency_weight" /\ metrics.engagement_rate < 100 THEN 98
        ELSE 100]

\* w with each weight multiplied by its factor and all five divided once by
\* the new total
LowAdjusted(w, metrics) ==
    LET f == LowFactors(metrics)
        products == [k \in WeightKeys |-> w.num[k] * f[k]]
    IN  Canon([num |-> products, den |-> SumNum(products)])

\* the learning updates of SpecWeights, by their inputs
LearnedFrom(row, hook) ==
    analyze_performance_and_learn(row, <<"ai", "robot">>, hook, ScriptShort, "c1",
                                  "written", "written")

\* C20: a learning update with category "low" multiplies novelty by 1.05 and
\* performance by 0.95 exactly when retention_rate < 30, cross_source by
\* 1.03 and recency by 0.98 exactly when engagement_rate < 1.0, both when
\* both hold, never keyword_frequency, and then divides all five once by
\* their new total.
C20_LowCategoryAdjustments ==
    [][\A row \in AnalyticsRows, hook \in {HookEmpty, HookWatch} :
           (/\ LearnedFrom(row, hook)
            /\ result' = "ok"
            /\ Metrics(row).performance_category = "low")
               => learn_weights' = LowAdjusted(learn_weights, Metrics(row))]_vars

\* a "low" video with retention 20 and engagement 0 was learned from at the
\* defaults: four weights moved, keyword_frequency only by the division
C20_Witness ==
    /\ op = "analyze"
    /\ result = "ok"
    /\ n_ops = 1
    /\ learn_weights = LowAdjusted(default_weights, Metrics(RowLowBoth))
    /\ learn_weights # LowAdjusted(default_weights, Metrics(RowLowRetention))
    /\ learn_weights # LowAdjusted(default_weights, Metrics(RowLowEngagement))
    /\ learn_weights # default_weights

(***************************************************************************)
(* TopicScorer._score_novelty and _score_performance_potential asked on    *)
(* their own, after mark_topic_used calls and the passing of days.         *)
(***************************************************************************)
sub_score_novelty(idea, channel) ==
    /\ op' = "score_novelty"
    /\ result' = "ok"
    /\ request' = [kind |-> "novelty", idea |-> idea, channel |-> channel]
    /\ recommended' = score_novelty(idea, channel)
    /\ UNCHANGED <<sched, weights, used_topics, peer_used_topics, learn_weights,
                   learning_data, weights_file, history_file, learning_file,
                   ideas, ranked, prev_ranked, now, weights_used, learned,
                   mark_log, hook_log, n_ops>>

\* days pass between two operations
DaysPass(days) ==
    /\ op' = "days_pass"
    /\ result' = "ok"
    /\ now' = now + days
    /\ UNCHANGED <<sched, weights, used_topics, peer_used_topics, learn_weights,
                   learning_data, weights_file, history_file, learning_file,
                   ideas, ranked, prev_ranked, weights_used, learned,
                   mark_log, hook_log, request, recommended, n_ops>>

MaxNoveltyMarks == 3   \* mark_topic_used calls in SpecNovelty
MaxNoveltyDays == 21   \* the clock of SpecNovelty stops here

Candidate == Idea(1, [keywords |-> <<"ai", "robot", "future">>, age_hours |-> 1])

\* keyword lists sharing 0, 2 and 3 keywords with the candidate
UsedKeywordLists ==
    {<<"z">>, <<"ai", "robot", "x">>, <<"ai", "robot", "future", "z">>}

NoveltyMarkStep ==
    /\ n_ops < MaxNoveltyMarks
    /\ \E keywords \in UsedKeywordLists :
           mark_topic_used(n_ops + 1, keywords, "c1", NoPerformance, "written")
    /\ UNCHANGED sched

NoveltyDaysStep ==
    /\ now < MaxNoveltyDays
    /\ op # "days_pass"
    /\ DaysPass(7)

NoveltyAskStep ==
    /\ op # "score_novelty"
    /\ sub_score_novelty(Candidate, "c1")

NextNovelty == NoveltyMarkStep \/ NoveltyDaysStep \/ NoveltyAskStep

SpecNovelty == Init /\ [][NextNovelty]_vars

\* the entries of the channel's history used within the last 14 days
RecentEntries(channel) ==
    LET history == channel_history(used_topics, channel)
    IN  {history[i] : i \in {j \in 1..Len(history) :
                                 history[j].used_at > now - NoveltyDays}}

\* C21: the novelty sub-score is 0.2 when some entry of the last 14 days
\* shares 3 or more keywords with the candidate, 0.5 when none does but one
\* shares 2 or more, 1.0 otherwise, whatever the order of the entries.
C21_NoveltyByStrongestOverlap ==
    op = "score_novelty" =>
        LET recent == RecentEntries(request.channel)
            shares(n) == \E r \in recent :
                             Overlap(request.idea.keywords, r.keywords) >= n
        IN  recommended = IF shares(3) THEN Tenths(2)
                          ELSE IF shares(2) THEN Tenths(5)
                          ELSE Tenths(10)

sub_score_performance(idea, channel) ==
    LET potential == score_performance_potential(idea, channel)
    IN  /\ op' = "score_performance"
        /\ result' = IF potential.raised THEN "raised" ELSE "ok"
        /\ request' = [kind |-> "performance", idea |-> idea, channel |-> channel]
        /\ recommended' = IF potential.raised THEN <<>> ELSE potential.value
        /\ UNCHANGED <<sched, weights, used_topics, peer_used_topics, learn_weights,
                       learning_data, weights_file, history_file, learning_file,
                       ideas, ranked, prev_ranked, now, weights_used, learned,
                       mark_log, hook_log, n_ops>>

(***************************************************************************)
(* SpecPerformance: a channel's history grows past the 50 entries the      *)
(* performance sub-score looks at; the first entries may carry performance *)
(* data.  The sub-score is asked for the marked channel and for a channel  *)
(* without history.                                                        *)
(***************************************************************************)
MaxPerfMarks == 51     \* mark_topic_used calls in SpecPerformance
MaxPerfRecorded == 2   \* how many of the first of them may carry performance data

\* retention 0.8 and 1000 views: 0.7 * 0.8 + 0.3 * 1.0 = 0.86
PerformanceRecorded ==
    [recorded |-> TRUE, avg_view_duration_sec |-> 24, total_duration_sec |-> 30,
     views |-> 1000]

PerfMarkStep ==
    /\ n_ops < MaxPerfMarks
    /\ \E keywords \in {<<"z">>, <<"ai", "robot", "x">>},
          performance_data \in {NoPerformance, PerformanceRecorded} :
           /\ n_ops >= MaxPerfRecorded
                  => keywords = <<"z">> /\ performance_data = NoPerformance
           /\ mark_topic_used(n_ops + 1, keywords, "c1", performance_data, "written")
    /\ UNCHANGED sched

PerfAskStep ==
    /\ op # "score_performance"
    /\ \E channel \in Channels : sub_score_performance(Candidate, channel)

NextPerformance == PerfMarkStep \/ PerfAskStep

SpecPerformance == Init /\ [][NextPerformance]_vars

\* 0.7 * retention + 0.3 * min(1, views / 1000) of one entry, in 1/600
EntryPerformance(p) ==
    (420 * p.avg_view_duration_sec) \div p.total_duration_sec
        + (180 * (IF p.views < 1000 THEN p.views ELSE 1000)) \div 1000

RECURSIVE SumPerformance(_, _)
SumPerformance(history, idx) ==
    IF idx = {} THEN 0
    ELSE LET i == CHOOSE i \in idx : TRUE
         IN  EntryPerformance(history[i].performance)
                 + SumPerformance(history, idx \ {i})

\* C22: with a history for the channel, the performance sub-score is the
\* mean of 0.7 * retention + 0.3 * min(1, views / 1000) over the entries
\* among the last 50 that carry performance data and share 2 or more
\* keywords with the candidate; it is 0.5 when the channel has no history
\* or no such entry, also when the entries were marked without performance
\* data.
C22_PerformanceIsMeanOfSimilar ==
    op = "score_performance" =>
        LET history == Suffix(channel_history(used_topics, request.channel), PerfWindow)
            similar == {i \in 1..Len(history) :
                           /\ history[i].performance.recorded
                           /\ Overlap(request.idea.keywords, history[i].keywords) >= 2}
        IN  /\ result = "ok"
            /\ recommended = IF similar = {} THEN Tenths(5)
                             ELSE SumPerformance(history, similar) \div Cardinality(similar)

(***************************************************************************)
(* SpecKeywords: learning updates whose keyword lists are what              *)
(* _extract_keywords hands over (gather.py:194-198: the words of a title   *)
(* in their order, a word as often as the title has it).  After the first  *)
(* updates one keyword is learned again and again, past the 10 scores its  *)
(* recent_trend keeps.                                                     *)
(***************************************************************************)
MaxKeywordLearns == 11   \* learning updates in SpecKeywords
MaxKeywordVaried == 2    \* how many of the first of them draw any keyword list

LearnedKeywordLists == {<<"ai">>, <<"ai", "robot">>, <<"robot", "ai", "robot">>}

KeywordRows == {RowViral, RowGood}

KeywordLearned(row, keywords, hook) ==
    analyze_performance_and_learn(row, keywords, hook, ScriptShort, "c1",
                                  "written", "written")

KeywordLearnStep ==
    /\ n_ops < MaxKeywordLearns
    /\ \E row \in KeywordRows, keywords \in LearnedKeywordLists,
          hook \in {HookWatch, HookEmpty} :
           /\ n_ops >= MaxKeywordVaried
                  => row = RowGood /\ keywords = <<"ai">> /\ hook = HookWatch
           /\ KeywordLearned(row, keywords, hook)

NextKeywords == KeywordLearnStep

SpecKeywords == Init /\ [][NextKeywords]_vars

\* the statistics of keyword k in a learning state, those of a keyword never
\* seen when it is not tracked
StatsOf(ld, k) ==
    IF k \in DOMAIN ld.keyword_performance THEN ld.keyword_performance[k]
    ELSE [total_videos |-> 0, total_performance |-> 0,
          avg_performance |-> Frac(0, 1), best_performance |-> 0,
          recent_trend |-> <<>>]

\* one update with this score was counted for the keyword
CountedOnce(old, new, score) ==
    /\ new.total_videos = old.total_videos + 1
    /\ new.total_performance = old.total_performance + score
    /\ new.avg_performance = Frac(new.total_performance, new.total_videos)
    /\ new.best_performance = Max(old.best_performance, score)
    /\ new.recent_trend = Suffix(Append(old.recent_trend, score), 10)

\* C23: every learning update counts once for each keyword it includes and
\* for no other: total_videos is the number of updates that included the
\* keyword, avg_performance is total_performance / total_videos,
\* best_performance the highest score seen, recent_trend the last
\* min(total_videos, 10) scores in arrival order.
C23_KeywordStatsCountUpdates ==
    [][\A row \in KeywordRows, keywords \in LearnedKeywordLists,
          hook \in {HookWatch, HookEmpty} :
           KeywordLearned(row, keywords, hook) =>
               /\ DOMAIN learning_data'.keyword_performance
                      = DOMAIN learning_data.keyword_performance \cup ToSet(keywords)
               /\ \A k \in DOMAIN learning_data'.keyword_performance :
                      IF k \in ToSet(keywords)
                      THEN CountedOnce(StatsOf(learning_data, k),
                                       StatsOf(learning_data', k),
                                       calculate_performance_score(Metrics(row)))
                      ELSE StatsOf(learning_data', k) = StatsOf(learning_data, k)]_vars

(***************************************************************************)
(* SpecInsights: learning updates of two channels with scripts of two      *)
(* lengths, among them videos nobody watched; one channel then goes on     *)
(* past the 20 structures it keeps.                                        *)
(***************************************************************************)
MaxInsightLearns == 22   \* learning updates in SpecInsights
MaxInsightVaried == 2    \* how many of the first of them draw any input

InsightRows == {RowViral, RowGood, RowNoViews}

InsightScripts == {ScriptShort, ScriptCta}

InsightLearned(row, script, channel) ==
    analyze_performance_and_learn(row, <<>>, HookWatch, script, channel,
                                  "written", "written")

InsightLearnStep ==
    /\ n_ops < MaxInsightLearns
    /\ \E row \in InsightRows, script \in InsightScripts, channel \in Channels :
           /\ n_ops >= MaxInsightVaried
                  => row = RowGood /\ script = ScriptShort /\ channel = "c1"
           /\ InsightLearned(row, script, channel)

NextInsights == InsightLearnStep

SpecInsights == Init /\ [][NextInsights]_vars

Tracked(ld, channel) == channel \in DOMAIN ld.content_insights

StructuresOf(ld, channel) ==
    IF Tracked(ld, channel) THEN ld.content_insights[channel].successful_structures
    ELSE <<>>

CountPerformance(structures, p) ==
    Cardinality({i \in 1..Len(structures) : structures[i].performance = p})

\* new is old with one structure of performance p added: the 20 best of
\* them, best first
TopTwentyWith(old, new, p) ==
    /\ Len(new) = (IF Len(old) < 20 THEN Len(old) + 1 ELSE 20)
    /\ \A i \in 1..(Len(new) - 1) : new[i].performance >= new[i + 1].performance
    /\ \A q \in {old[i].performance : i \in 1..Len(old)} \cup {p} :
           LET had == CountPerformance(old, q) + (IF q = p THEN 1 ELSE 0)
           IN  /\ CountPerformance(new, q) <= had
               /\ CountPerformance(new, q) < had
                      => \A i \in 1..Len(new) : new[i].performance >= q
    /\ \A i \in 1..Len(new) :
           new[i].performance \in {old[j].performance : j \in 1..Len(old)} \cup {p}

\* C24: optimal_length is the word count and score of the best script seen
\* so far for the channel, the first one for a channel not tracked before
\* and afterwards replaced only by a strictly better score; the channel's
\* successful_structures are its at most 20 best, in non-increasing order
\* of performance.
C24_BestScriptAndTopStructures ==
    [][\A row \in InsightRows, script \in InsightScripts, channel \in Channels :
           InsightLearned(row, script, channel) =>
               LET p == calculate_performance_score(Metrics(row))
                   this == [word_count |-> SumLen(script, 1), performance |-> p]
                   new == learning_data'.content_insights[channel]
               IN  /\ new.optimal_length =
                          IF ~Tracked(learning_data, channel) THEN this
                          ELSE IF p > learning_data.content_insights[channel]
                                                   .optimal_length.performance
                          THEN this
                          ELSE learning_data.content_insights[channel].optimal_length
                   /\ TopTwentyWith(StructuresOf(learning_data, channel),
                                    new.successful_structures, p)]_vars

\* C24 as the code has it: a channel not tracked before starts from word
\* count 0 with performance 0, so optimal_length is that of the first script
\* that reached the best score above 0, and stays 0 / 0 while every score
\* seen is 0; replaced only by a strictly better score; the structures as
\* in C24.
C24_BestScriptAboveZero ==
    [][\A row \in InsightRows, script \in InsightScripts, channel \in Channels :
           InsightLearned(row, script, channel) =>
               LET p == calculate_performance_score(Metrics(row))
                   this == [word_count |-> SumLen(script, 1), performance |-> p]
                   before == IF Tracked(learning_data, channel)
                             THEN learning_data.content_insights[channel].optimal_length
                             ELSE [word_count |-> 0, performance |-> 0]
                   new == learning_data'.content_insights[channel]
               IN  /\ new.optimal_length = IF p > before.performance THEN this ELSE before
                   /\ new.optimal_length.performance >= before.performance
                   /\ TopTwentyWith(StructuresOf(learning_data, channel),
                                    new.successful_structures, p)]_vars

\* channel c1 learned from 22 scripts and keeps 20 structures; the longer
\* script, seen first, is still the optimal length though later ones scored
\* the same
C24_Witness ==
    /\ op = "analyze"
    /\ n_ops = 22
    /\ Tracked(learning_data, "c1")
    /\ ~Tracked(learning_data, "c2")
    /\ Len(learning_data.content_insights["c1"].successful_structures) = 20
    /\ learning_data.content_insights["c1"].optimal_length =
           [word_count |-> 5,
            performance |-> calculate_performance_score(Metrics(RowGood))]

(***************************************************************************)
(* ScriptWriter.create_script_package as the pipeline calls it: from       *)
(* run_full_pipeline (pipeline.py:216) when a video is to be published,    *)
(* from dry_run (pipeline.py:463, 624) otherwise.  The call is the same in *)
(* both, and check_content is not told which run it serves.  The title and *)
(* the script are those the writer generated.                              *)
(***************************************************************************)
Runs == {"publish", "dry_run"}

create_script_package(run, title, script, banned_terms, llm, profile, dry_run_tolerant) ==
    LET is_safe == content_is_safe(title, script, banned_terms, llm, profile,
                                   dry_run_tolerant)
    IN  /\ op' = "create_script_package"
        /\ result' = IF is_safe = "approved" THEN "package" ELSE "none"
        /\ request' = [kind |-> "package", run |-> run, title |-> title,
                       script |-> script, banned_terms |-> banned_terms,
                       llm |-> llm, profile |-> profile,
                       dry_run_tolerant |-> dry_run_tolerant]
        /\ UNCHANGED <<sched, weights, used_topics, peer_used_topics, learn_weights,
                       learning_data, weights_file, history_file, learning_file,
                       ideas, ranked, prev_ranked, now, weights_used, learned,
                       mark_log, hook_log, recommended, n_ops>>

\* one script package per run
WriterStep ==
    /\ op = "init"
    /\ \E run \in Runs, title \in Titles, script \in Scripts,
          banned_terms \in BannedTermLists, llm \in LlmAnswers,
          profile \in Profiles, dry_run_tolerant \in BOOLEAN :
           create_script_package(run, title, script, banned_terms, llm, profile,
                                 dry_run_tolerant)

NextWriter == WriterStep

SpecWriter == Init /\ [][NextWriter]_vars

\* the reviewer model judged the content of the last call unsafe, for
\* reasons of tone only
UnsafeForToneOnly ==
    /\ ~request.llm.failed
    /\ ~request.llm.safe
    /\ is_soft_tone_only(request.llm.issues, request.llm.severity)

\* C25: under the strict profile, content judged unsafe for reasons of tone
\* only is approved in a dry run only; in a run that publishes it is
\* blocked.
C25_StrictBlocksToneWhenPublishing ==
    (/\ op = "create_script_package"
     /\ request.profile = "strict"
     /\ UnsafeForToneOnly
     /\ request.run = "publish")
        => result = "none"

(***************************************************************************)
(* Learning updates that leave weights summing to 1.0 as they are.         *)
(***************************************************************************)
\* C26: a learning update of category viral, high, good or average applied
\* to weights that sum to 1.0 leaves every weight unchanged; the
\* proportions of the weights change only in an update of category "low"
\* with retention_rate < 30 or engagement_rate < 1.0.
C26_OnlyLowChangesProportions ==
    [][\A row \in AnalyticsRows, hook \in {HookEmpty, HookWatch} :
           (LearnedFrom(row, hook) /\ result' = "ok") =>
               LET metrics == Metrics(row)
                   category == metrics.performance_category
               IN  /\ (/\ category \in {"viral", "high", "good", "average"}
                       /\ IsNormalized(learn_weights))
                          => learn_weights' = learn_weights
                   /\ learn_weights' # normalize_weights(learn_weights)
                          => /\ category = "low"
                             /\ \/ metrics.retention_rate < 30
                                \/ metrics.engagement_rate < 100]_vars

\* two learning updates were applied, the later ones to weights summing to
\* 1.0, one of them for a viral video and one for an average video with low
\* retention and engagement: the weights are the defaults brought to sum 1.0
C26_Witness ==
    /\ op = "analyze"
    /\ result = "ok"
    /\ BagSize(hook_log) = 2
    /\ calculate_performance_score(Metrics(RowViral)) \in DOMAIN hook_log
    /\ calculate_performance_score(Metrics(RowAverage)) \in DOMAIN hook_log
    /\ IsNormalized(learn_weights)
    /\ learn_weights = normalize_weights(default_weights)

(***************************************************************************)
(* A learning update that fails part-way.                                  *)
(***************************************************************************)
\* C27: a learning update is all-or-nothing in memory: when
\* analyze_performance_and_learn fails in a later step, the keyword
\* statistics, the hooks, the content insights and the weights are as they
\* were before the call.
C27_FailedUpdateChangesNothing ==
    [][(op' = "analyze" /\ result' = "error")
           => UNCHANGED <<learning_data, learn_weights>>]_vars

(***************************************************************************)
(* PipelineScheduler (scheduler.py).  The clock counts whole hours since a *)
(* midnight; runs start within an hour, cron jobs fire on the hour.  What  *)
(* self.pipeline.run_full_pipeline hands back to the scheduler is one of   *)
(* the two values its signature allows, a PublishResult or None; which of  *)
(* them the pipeline of pipeline.py produces is the subject of             *)
(* SpecPipeline below.                                                     *)
(***************************************************************************)
max_daily_runs == 2    \* MAX_DAILY_RUNS=2 in the environment (scheduler.py:27)
MaxRuns == 3           \* invocations of _run_scheduled_pipeline
MaxHours == 35         \* hours the clock runs

ScheduleHour == 9      \* default_schedule_time "09:00" (scheduler.py:28)
AnalyticsDelay == 24   \* timedelta(hours=24) (scheduler.py:131, 151)
SweepWindow == 24      \* cutoff_time - timedelta(hours=24) (scheduler.py:160)

PipelineResults == {"published", "none"}

\* every variable but sched, op, result and n_ops
program_state ==
    <<weights, used_topics, peer_used_topics, learn_weights, learning_data,
      weights_file, history_file, learning_file, ideas, ranked, prev_ranked,
      now, weights_used, learned, mark_log, hook_log, request, recommended>>

\* datetime.now().date()
Today == sched.hours \div 24

\* self.daily_run_counts.get(day, 0)
daily_run_count(day) ==
    IF day \in DOMAIN sched.daily_run_counts THEN sched.daily_run_counts[day]
    ELSE 0

\* the topic the run of this job picked: each run picks a topic of its own
TopicKeywords(job_id) == <<(<<"ai", "robot", "future", "tech", "code">>)[job_id]>>

PipelineJob(id, channel, status, video_id, completed_at, error_message) ==
    [id |-> id, channel |-> channel, status |-> status, video_id |-> video_id,
     completed_at |-> completed_at, error_message |-> error_message]

\* _run_scheduled_pipeline up to its await (scheduler.py:110-124): the
\* count of the day is read and compared, then run_full_pipeline begins
\* with the job row (pipeline.py:78, 153-163)
run_scheduled_pipeline_begin(channel_name) ==
    LET daily_count == daily_run_count(Today)
        id == Cardinality(sched.pipeline_jobs) + 1
    IN  /\ result' = "ok"
        /\ IF daily_count >= max_daily_runs
           THEN /\ op' = "run_skipped"
                /\ UNCHANGED sched
           ELSE /\ op' = "run_begin"
                /\ sched' = [sched EXCEPT
                      !.runs = @ \cup {[id |-> id, channel |-> channel_name,
                                        today |-> Today,
                                        daily_count |-> daily_count]},
                      !.pipeline_jobs =
                          @ \cup {PipelineJob(id, channel_name, "running", 0, -1, "")}]
        /\ UNCHANGED <<program_state, n_ops>>

\* _run_scheduled_pipeline after its await (scheduler.py:124-146), with
\* the end of run_full_pipeline: a published run has recorded its topic
\* (pipeline.py:137, 397) and completed its job row (pipeline.py:140,
\* 553-567), a failed one has failed it (pipeline.py:150, 569-583)
run_scheduled_pipeline_end(run, pipeline_result) ==
    LET running == PipelineJob(run.id, run.channel, "running", 0, -1, "")
        others == sched.pipeline_jobs \ {running}
    IN  IF pipeline_result = "published"
        THEN /\ mark_topic_used(run.id, TopicKeywords(run.id), run.channel,
                                NoPerformance, "written")
             /\ sched' = [sched EXCEPT
                   !.runs = @ \ {run},
                   !.pipeline_jobs =
                       others \cup {PipelineJob(run.id, run.channel, "success",
                                                run.id, sched.hours, "")},
                   !.daily_run_counts =
                       [d \in DOMAIN @ \cup {run.today} |->
                           IF d = run.today THEN run.daily_count + 1 ELSE @[d]],
                   !.analytics_jobs =
                       @ \cup {[video_id |-> run.id, channel |-> run.channel,
                                run_at |-> sched.hours + AnalyticsDelay]},
                   !.returned = "published"]
        ELSE /\ op' = "run_end"
             /\ result' = "failed"
             /\ sched' = [sched EXCEPT
                   !.runs = @ \ {run},
                   !.pipeline_jobs =
                       others \cup {PipelineJob(run.id, run.channel, "failed",
                                                0, sched.hours, "failed")},
                   !.returned = "none"]
             /\ UNCHANGED <<program_state, n_ops>>

\* _collect_video_analytics up to the learning update (scheduler.py:178-
\* 207): fetched says whether fetch_and_store_analytics stored a row
collect_video_analytics(video_id, fetched) ==
    /\ op' = IF fetched THEN "collect" ELSE "collect_failed"
    /\ result' = "ok"
    /\ UNCHANGED <<program_state, n_ops>>

\* the one-shot job analytics_<video_id> runs at its date and is gone
\* (scheduler.py:130-139)
analytics_job_fires(job, fetched) ==
    /\ collect_video_analytics(job.video_id, fetched)
    /\ sched' = [sched EXCEPT !.analytics_jobs = @ \ {job},
                              !.collecting = job.video_id]

\* the rows _collect_pending_analytics selects (scheduler.py:155-163):
\* successful jobs with a video completed between 48 and 24 hours ago
pending_jobs ==
    {job \in sched.pipeline_jobs :
        /\ job.status = "success"
        /\ job.video_id # 0
        /\ job.completed_at + AnalyticsDelay + SweepWindow >= sched.hours
        /\ job.completed_at + AnalyticsDelay < sched.hours}

\* _collect_pending_analytics, one turn of its loop (scheduler.py:148-176)
collect_pending_analytics(job, fetched) ==
    /\ collect_video_analytics(job.video_id, fetched)
    /\ sched' = [sched EXCEPT !.swept = @ \cup {job.video_id},
                              !.collecting = job.video_id]

\* _trigger_learning_update for the video whose analytics were stored
\* (scheduler.py:215-261): the topic and the script of the job are read
\* back and the learning engine is called
trigger_learning_update(video_id, row) ==
    LET job == CHOOSE j \in sched.pipeline_jobs : j.video_id = video_id
    IN  analyze_performance_and_learn(row, TopicKeywords(job.id), HookWatch,
                                      ScriptShort, job.channel, "written",
                                      "written")

\* an hour passes; at midnight _reset_daily_counts drops the count of the
\* day before (scheduler.py:321-330)
hour_passes ==
    LET next == sched.hours + 1
        yesterday == (next \div 24) - 1
        counts == sched.daily_run_counts
    IN  /\ op' = "hour"
        /\ result' = "ok"
        /\ sched' = [sched EXCEPT
              !.hours = next,
              !.swept = {},
              !.daily_run_counts =
                  IF next % 24 = 0
                  THEN [d \in DOMAIN counts \ {yesterday} |-> counts[d]]
                  ELSE counts]
        /\ UNCHANGED <<program_state, n_ops>>

\* the daily jobs of the channels and the one-time runs, all at 09:00
RunBeginStep ==
    /\ op \notin {"collect", "run_skipped"}
    /\ sched.hours % 24 = ScheduleHour
    /\ Cardinality(sched.pipeline_jobs) < MaxRuns
    /\ \E channel_name \in Channels : run_scheduled_pipeline_begin(channel_name)

RunEndStep ==
    /\ op # "collect"
    /\ \E run \in sched.runs, pipeline_result \in PipelineResults :
           run_scheduled_pipeline_end(run, pipeline_result)

AnalyticsJobStep ==
    /\ op # "collect"
    /\ \E job \in sched.analytics_jobs, fetched \in BOOLEAN :
           /\ job.run_at <= sched.hours
           /\ analytics_job_fires(job, fetched)

SweepStep ==
    /\ op # "collect"
    /\ \E job \in pending_jobs, fetched \in BOOLEAN :
           /\ job.video_id \notin sched.swept
           /\ collect_pending_analytics(job, fetched)

LearningUpdateStep ==
    /\ op = "collect"
    /\ trigger_learning_update(sched.collecting, RowGood)

\* the hour ends when its runs have returned, its due jobs have run and
\* its sweep is through
HourStep ==
    /\ op # "collect"
    /\ sched.hours < MaxHours
    /\ sched.runs = {}
    /\ \A job \in sched.analytics_jobs : job.run_at > sched.hours
    /\ \A job \in pending_jobs : job.video_id \in sched.swept
    /\ hour_passes

NextScheduler ==
    RunBeginStep \/ RunEndStep \/ AnalyticsJobStep \/ SweepStep
        \/ LearningUpdateStep \/ HourStep

SpecScheduler == Init /\ [][NextScheduler]_vars

\* the learning updates counted for the topic of a video
LearningUpdates(video_id) ==
    StatsOf(learning_data, TopicKeywords(video_id)[1]).total_videos

SuccessfulRuns(day) ==
    {job \in sched.pipeline_jobs :
        job.status = "success" /\ job.completed_at \div 24 = day}

MaxPipelineRuns == 2   \* run_full_pipeline calls in SpecPipeline

ConfiguredChannels == Channels

StageOutcomes ==
    [ideas : BOOLEAN, script : BOOLEAN, voiceover : BOOLEAN, assets : BOOLEAN,
     rendered : BOOLEAN, uploaded : BOOLEAN]

AllStagesSucceed(stages) ==
    /\ stages.ideas
    /\ stages.script
    /\ stages.voiceover
    /\ stages.assets
    /\ stages.rendered
    /\ stages.uploaded

\* _compose_video (pipeline.py:324-343) hands script_package to the
\* composer, a name that is neither a parameter nor a local nor a global
\* of the method: evaluating the call raises NameError before the composer
\* is entered, the method's except catches it and None is returned
compose_video(rendered) == FALSE

\* the stage at which run_full_pipeline raises, or "published"
pipeline_outcome(channel_name, stages) ==
    IF channel_name \notin ConfiguredChannels THEN "Channel not found in configuration"
    ELSE IF ~stages.ideas THEN "No suitable topic ideas found"
    ELSE IF ~stages.script THEN "Failed to generate suitable script"
    ELSE IF ~stages.voiceover THEN "Failed to generate voiceover"
    ELSE IF ~stages.assets THEN "assets"
    ELSE IF ~compose_video(stages.rendered) THEN "Failed to compose video"
    ELSE IF ~stages.uploaded THEN "Failed to publish video"
    ELSE "published"

run_full_pipeline(channel_name, stages) ==
    LET id == Cardinality(sched.pipeline_jobs) + 1
        outcome == pipeline_outcome(channel_name, stages)
    IN  IF outcome = "published"
        THEN /\ mark_topic_used(id, TopicKeywords(id), channel_name,
                                NoPerformance, "written")
             /\ sched' = [sched EXCEPT
                   !.pipeline_jobs =
                       @ \cup {PipelineJob(id, channel_name, "success", id,
                                           sched.hours, "")},
                   !.returned = "published"]
        ELSE /\ op' = "run_full_pipeline"
             /\ result' = "failed"
             /\ sched' = [sched EXCEPT
                   !.pipeline_jobs =
                       @ \cup {PipelineJob(id, channel_name, "failed", 0,
                                           sched.hours, outcome)},
                   !.returned = "none"]
             /\ UNCHANGED <<program_state, n_ops>>

RunPipelineStep ==
    /\ Cardinality(sched.pipeline_jobs) < MaxPipelineRuns
    /\ \E channel_name \in ConfiguredChannels \cup {"c9"}, stages \in StageOutcomes :
           run_full_pipeline(channel_name, stages)

NextPipeline == RunPipelineStep

SpecPipeline == Init /\ [][NextPipeline]_vars

\* the job row of the run that returned last
LastJob(s) == CHOOSE job \in s.pipeline_jobs : job.id = Cardinality(s.pipeline_jobs)

\* the topic of the job is in the history of the channel
TopicRecorded(topics, job) ==
    \E i \in 1..Len(channel_history(topics, job.channel)) :
        channel_history(topics, job.channel)[i].topic_id = job.id

\* C30: when every stage collaborator succeeds, run_full_pipeline records
\* the topic as used in the channel history, marks the job 'success' and
\* returns the PublishResult; it returns None and marks the job 'failed',
\* without recording the topic, only when some stage fails.
C30_PipelinePublishesWhenStagesSucceed ==
    [][\A channel_name \in ConfiguredChannels, stages \in StageOutcomes :
           run_full_pipeline(channel_name, stages)
               => /\ AllStagesSucceed(stages)
                     => /\ sched'.returned = "published"
                        /\ LastJob(sched').status = "success"
                        /\ TopicRecorded(used_topics', LastJob(sched'))
                  /\ sched'.returned = "none"
                     => /\ ~AllStagesSucceed(stages)
                        /\ LastJob(sched').status = "failed"
                        /\ ~TopicRecorded(used_topics', LastJob(sched'))]_vars

====
